---- MODULE Spec2Model ----
(***************************************************************************)
(* Ordered task store of the kanban service, in its two implementations:   *)
(*   "server" - the unified Express server (src/unnamed/part_001): the     *)
(*              task route handlers over the sql.js database, each ending  *)
(*              in db.save() and broadcast();                              *)
(*   "repo"   - the data access layer of agent 2 (repositories.ts):        *)
(*              TaskRepo over better-sqlite3 with foreign keys ON.         *)
(* A behaviour runs one implementation (impl never changes).               *)
(*                                                                         *)
(* The tasks table is a set of rows [id, col, pos, board].  Every request  *)
(* is one atomic step (the handlers and the repository calls are           *)
(* synchronous); last is the last request's response, sent the frames the  *)
(* last request's broadcast wrote.  disk is the table in the database      *)
(* file, diskOk whether the file system accepts the next write.            *)
(*                                                                         *)
(* The real-time channel is the WebSocket server of part_001 (impl =       *)
(* "server") or the RealtimeServer of agent 8 (src/unnamed/part_009, impl  *)
(* = "realtime").  clients is the registry userId -> set of sockets; socks *)
(* gives each socket its readyState, the credential it connected with and  *)
(* ws.userId; failed and count are the sockets whose write threw in the    *)
(* last delivery call and the number the call returned; notes is the       *)
(* notification store of agent 8 (notificationService.js) and nextNoteId   *)
(* its id counter.                                                         *)
(*                                                                         *)
(* The event bus (eventBus.js) keeps history, the bounded list of the      *)
(* envelopes emitted, and calls the handlers of listeners; emitted counts  *)
(* the emits and stamps the envelopes, trace is what the last emit did, in *)
(* order, and out what the last call of the bus returned.                  *)
(*                                                                         *)
(* The client hook (useNotifications.js) of one user holds notifications   *)
(* and unreadCount, its cache, connected, the state wsState of its         *)
(* WebSocket, the reconnect timer and delay; fetching is its GET request   *)
(* in flight and wire the frames the server has written to its socket and  *)
(* it has not handled yet.  lost counts the connections lost in a row and  *)
(* opens the connections opened; missed tells whether the store of the    *)
(* user changed while the hook had no open connection.  unmounted tells    *)
(* whether the cleanup of the effect has run, and marking is the PATCH     *)
(* /read request of the hook in flight.                                    *)
(*                                                                         *)
(* The task service (agent 3, taskService.js) keeps taskStatus, the status *)
(* column of each task; updating holds the calls of update that have       *)
(* loaded their task and not written yet, sends the notifications sent,    *)
(* and bulk the call of bulkUpdateStatus under way with its per-position   *)
(* outcomes.                                                               *)
(*                                                                         *)
(* The client task store (useTaskStore, src/unnamed/part_016) holds        *)
(* storeTasks, storeBoards (the task ids of each column of the loaded      *)
(* board), optimisticUpdates and storeError; requests are its calls that   *)
(* await apiFetch, each with what its closure captured, and remoteTasks    *)
(* and remoteBoards what the server behind apiFetch holds.                 *)
(***************************************************************************)
EXTENDS Integers, Sequences, FiniteSets

VARIABLES impl, tasks, nextId, clients, sent, last, disk, diskOk,
          socks, failed, count, notes, nextNoteId,
          history, listeners, trace, emitted, out,
          notifications, unreadCount, connected, wsState, reconnectTimer,
          reconnectDelay, fetching, wire, lost, opens, missed, unmounted, marking,
          taskStatus, updating, sends, bulk,
          storeTasks, storeBoards, optimisticUpdates, storeError, requests, remoteTasks,
          remoteBoards

vars == <<impl, tasks, nextId, clients, sent, last, disk, diskOk,
          socks, failed, count, notes, nextNoteId,
          history, listeners, trace, emitted, out,
          notifications, unreadCount, connected, wsState, reconnectTimer,
          reconnectDelay, fetching, wire, lost, opens, missed, unmounted, marking,
          taskStatus, updating, sends, bulk,
          storeTasks, storeBoards, optimisticUpdates, storeError, requests, remoteTasks,
          remoteBoards>>

\* The sockets and what a delivery call reports.
channel == <<socks, failed, count>>

\* The event bus.
bus == <<history, listeners, trace, emitted, out>>

\* The client hook.
hook == <<notifications, unreadCount, connected, wsState, reconnectTimer,
          reconnectDelay, fetching, wire, lost, opens, missed, unmounted, marking>>

\* The task service of agent 5.
service == <<taskStatus, updating, sends, bulk>>

\* The task store of the client and the server it talks to.
taskStore == <<storeTasks, storeBoards, optimisticUpdates, storeError, requests,
               remoteTasks, remoteBoards>>

(* ------------------------------ bounds -------------------------------- *)
\* Largest number of notifications the store holds (an event that would pass
\* it is not emitted).
MaxNotes == 2

\* Largest number of events emitted on the bus whose history is followed to
\* its capacity, and on the bus whose handlers are followed.
MaxEmits == 203

MaxDispatch == 3

\* Largest number of connections the client loses in a row, of connections it
\* opens, and of frames waiting on its socket.
MaxLost == 7

MaxOpens == 2

MaxWire == 2

\* Largest number of calls of TaskService.update under way at a time.
MaxCalls == 2

\* Largest number of calls of the client store under way at a time.
MaxRequests == 2

\* Largest position a request may produce (positions grow without limit in
\* the code; a request that would exceed the bound is not issued).
MaxPos == 2

\* The ids uid() / randomblob(16) hand out, in the order they are allocated;
\* an id is never handed out twice.
IdOrder == <<"A", "B", "C">>

TaskIds == {IdOrder[i] : i \in 1..Len(IdOrder)}

Users == {"u1", "u2"}

\* The boards table: id -> owner_id.  Each user owns one board.
BoardOwner == [b \in {"b1", "b2"} |-> IF b = "b1" THEN "u1" ELSE "u2"]

\* The columns table: id -> board_id, and the order of the columns of a board.
ColumnBoard == [c \in {"Todo", "Done", "Inbox"} |-> IF c = "Inbox" THEN "b2" ELSE "b1"]

ColumnOrder == <<"Todo", "Done", "Inbox">>

\* The board of u1 and its columns, which the requests address unless a
\* specification says otherwise.
Boards == {"b1"}

Columns == {c \in DOMAIN ColumnBoard : ColumnBoard[c] \in Boards}

\* Request values: a column id that names no column, an absent columnId,
\* an absent position.
GhostCol == "Ghost"

NoCol == ""

NoPos == -1

PosInputs == 0..MaxPos

(* --------------------------- reading the table ------------------------ *)
\* SELECT * FROM tasks WHERE id = ?
findById(rows, id) == {r \in rows : r.id = id}

\* SELECT * FROM tasks WHERE column_id = ?
InColumn(rows, col) == {r \in rows : r.col = col}

IsOrdered(rows, s) ==
    \A i, j \in 1..Len(s) :
        i < j => (CHOOSE r \in rows : r.id = s[i]).pos <= (CHOOSE r \in rows : r.id = s[j]).pos

\* ... ORDER BY position: every sequence of the column's ids, each once, in
\* non-decreasing position (rows of equal position come in either order).
findByColumn(rows, col) ==
    LET ids == {r.id : r \in InColumn(rows, col)}
        n == Cardinality(ids)
    IN {s \in [1..n -> ids] : {s[i] : i \in 1..n} = ids /\ IsOrdered(rows, s)}

\* SELECT MAX(position) as m ...; ((maxPos && maxPos.m) ?? -1) + 1
NextPosition(rows, col) ==
    LET ps == {r.pos : r \in InColumn(rows, col)}
    IN IF ps = {} THEN 0 ELSE (CHOOSE p \in ps : \A q \in ps : q <= p) + 1

\* SELECT id FROM columns WHERE board_id = ? ORDER BY position LIMIT 1
FirstColumn(board) ==
    LET idx == {i \in 1..Len(ColumnOrder) : ColumnBoard[ColumnOrder[i]] = board}
    IN IF idx = {} THEN NoCol
       ELSE ColumnOrder[CHOOSE i \in idx : \A j \in idx : i <= j]

(* --------------------------- writing the table ------------------------ *)
\* Variant of ShiftFrom: the shift leaves the row at the target position in place.
ShiftFrom_Strict(rows, col, pos) ==
    {IF r.col = col /\ r.pos > pos THEN [r EXCEPT !.pos = @ + 1] ELSE r : r \in rows}

\* UPDATE tasks SET position = position + 1 WHERE column_id = ? AND position >= ?
ShiftFrom(rows, col, pos) ==
    {IF r.col = col /\ r.pos >= pos THEN [r EXCEPT !.pos = @ + 1] ELSE r : r \in rows}

\* Variant of Reassign: the row gets its position but keeps its column.
Reassign_KeepColumn(rows, id, col, pos) ==
    {IF r.id = id THEN [r EXCEPT !.pos = pos] ELSE r : r \in rows}

\* UPDATE tasks SET column_id = ?, position = ? WHERE id = ?
Reassign(rows, id, col, pos) ==
    {IF r.id = id THEN [r EXCEPT !.col = col, !.pos = pos] ELSE r : r \in rows}

\* Variant of DeleteRow: the delete closes the gap it leaves.
DeleteRow_Renumber(rows, id) ==
    LET gone == {r \in rows : r.id = id}
    IN {IF \E g \in gone : g.col = r.col /\ g.pos < r.pos THEN [r EXCEPT !.pos = @ - 1] ELSE r :
          r \in rows \ gone}

\* DELETE FROM tasks WHERE id = ?
DeleteRow(rows, id) == {r \in rows : r.id # id}

\* UPDATE tasks SET column_id = ?, position = ? WHERE id = ?, each column
\* only when the request carries it.
SetFields(rows, id, col, pos) ==
    {IF r.id = id
       THEN [r EXCEPT !.col = IF col = NoCol THEN @ ELSE col,
                      !.pos = IF pos = NoPos THEN @ ELSE pos]
       ELSE r : r \in rows}

WithinBound(rows) == \A r \in rows : r.pos <= MaxPos

(* ------------------------------ broadcast ----------------------------- *)
\* ws.readyState: CONNECTING, OPEN, CLOSING, CLOSED.
CONNECTING == 0

OPEN == 1

CLOSING == 2

CLOSED == 3

\* The sockets of reg that are open: if (ws.readyState === 1)
OpenOf(reg, keys) == {s \in UNION {reg[u] : u \in keys} : socks[s].readyState = OPEN}

\* Variant of broadcast: the user to exclude gets the frame too.
broadcast_ToAll(excludeUserId, event, id) ==
    {[sock |-> s, type |-> event, id |-> id] : s \in OpenOf(clients, DOMAIN clients)}

\* broadcast(excludeUserId, event, payload): one frame to every open socket
\* of every user other than excludeUserId.
broadcast(excludeUserId, event, id) ==
    {[sock |-> s, type |-> event, id |-> id] :
        s \in OpenOf(clients, DOMAIN clients \ {excludeUserId})}

\* What the caller of a request gets back: the operation, the id of the task
\* it named or was given, and the HTTP status and error text of a handler or
\* the return value of a repository call.
Response(op, id, status, error) ==
    [op |-> op, id |-> id, status |-> status, error |-> error]

\* Variant of Reject: the error is also written to every socket.
Reject_Notify(resp) ==
    /\ last' = resp
    /\ sent' = broadcast("", "error", resp.id)
    /\ UNCHANGED <<impl, tasks, nextId, clients, disk, diskOk, channel, notes, nextNoteId, bus, hook, service, taskStore>>

\* throw new NotFoundError / ValidationError -> catch (e) ->
\* res.status(e.status || 500).json({ error: e.message }): the request ends
\* before any write and before broadcast().
Reject(resp) ==
    /\ last' = resp
    /\ sent' = {}
    /\ UNCHANGED <<impl, tasks, nextId, clients, disk, diskOk, channel, notes, nextNoteId, bus, hook, service, taskStore>>

\* The message of the error a failed write of the database file throws.
WriteError == "write failed"

\* Variant of Accept: the handler broadcasts and answers before it saves.
Accept_AckFirst(resp, rows, frames) ==
    /\ WithinBound(rows)
    /\ UNCHANGED <<impl, clients, diskOk, channel, notes, nextNoteId, bus, hook, service, taskStore>>
    /\ tasks' = rows
    /\ sent' = frames
    /\ last' = resp
    /\ disk' = IF diskOk THEN rows ELSE disk

\* The request wrote rows, saved, broadcast frames and answered resp, in this
\* order.  db.save() is fs.writeFileSync(DB_PATH, ...): when it throws, the
\* handler is left before broadcast() and the request is answered 500 with
\* the rows written in memory only.  In the repository the failed write makes
\* the statement throw and the transaction roll back.
Accept(resp, rows, frames) ==
    /\ WithinBound(rows)
    /\ UNCHANGED <<impl, clients, diskOk, channel, notes, nextNoteId, bus, hook, service, taskStore>>
    /\ IF diskOk
         THEN /\ tasks' = rows
              /\ disk' = rows
              /\ sent' = frames
              /\ last' = resp
       ELSE IF impl = "server"
         THEN /\ tasks' = rows
              /\ disk' = disk
              /\ sent' = {}
              /\ last' = Response(resp.op, resp.id, "500", WriteError)
       ELSE /\ tasks' = tasks
            /\ disk' = disk
            /\ sent' = {}
            /\ last' = Response(resp.op, resp.id, "throw", WriteError)

\* The task row the handlers look up:
\* SELECT t.* FROM tasks t, boards b WHERE t.board_id = b.id AND t.id = ? AND b.owner_id = ?
OwnedTask(u, id) ==
    {r \in findById(tasks, id) : r.board \in DOMAIN BoardOwner /\ BoardOwner[r.board] = u}

\* SELECT id FROM columns WHERE id = ? AND board_id = ?
ColumnOnBoard(columnId, boardId) ==
    columnId \in DOMAIN ColumnBoard /\ ColumnBoard[columnId] = boardId

(* ------------------------- server route handlers ---------------------- *)
\* POST /api/boards/:boardId/tasks
CreateTask(u, boardId, valid, columnId) ==
    /\ impl = "server"
    /\ IF BoardOwner[boardId] # u
         THEN Reject(Response("create", "", "404", "Board not found"))
       ELSE IF ~valid
         THEN Reject(Response("create", "", "400", "Task title is required"))
       ELSE IF columnId = NoCol /\ FirstColumn(boardId) = NoCol
         THEN Reject(Response("create", "", "400", "Board has no columns"))
       ELSE IF columnId # NoCol /\ ~ColumnOnBoard(columnId, boardId)
         THEN Reject(Response("create", "", "400", "Column not found on this board"))
       ELSE
         /\ nextId < Len(IdOrder)
         /\ nextId' = nextId + 1
         /\ LET targetCol == IF columnId = NoCol THEN FirstColumn(boardId) ELSE columnId
                id == IdOrder[nextId + 1]
                row == [id |-> id, col |-> targetCol, board |-> boardId,
                        pos |-> NextPosition(tasks, targetCol)]
            IN Accept(Response("create", id, "201", ""),
                      tasks \cup {row}, broadcast(u, "task:created", id))

\* PATCH /api/boards/:boardId/tasks/:taskId/move
MoveTask(u, boardId, taskId, columnId, position) ==
    /\ impl = "server"
    /\ IF OwnedTask(u, taskId) = {}
         THEN Reject(Response("move", taskId, "404", "Task not found"))
       ELSE IF columnId = NoCol
         THEN Reject(Response("move", taskId, "400", "columnId is required"))
       ELSE IF ~ColumnOnBoard(columnId, boardId)
         THEN Reject(Response("move", taskId, "400", "Target column not found"))
       ELSE
         LET p == IF position = NoPos THEN 0 ELSE position
         IN /\ UNCHANGED nextId
            /\ Accept(Response("move", taskId, "200", ""),
                      Reassign(ShiftFrom(tasks, columnId, p), taskId, columnId, p),
                      broadcast(u, "task:moved", taskId))

\* Variant of DeleteTask: the handler deletes without looking the task up.
DeleteTask_NoLookup(u, boardId, taskId) ==
    /\ impl = "server"
    /\ UNCHANGED nextId
    /\ Accept(Response("delete", taskId, "204", ""),
              DeleteRow(tasks, taskId), broadcast(u, "task:deleted", taskId))

\* DELETE /api/boards/:boardId/tasks/:taskId
DeleteTask(u, boardId, taskId) ==
    /\ impl = "server"
    /\ IF OwnedTask(u, taskId) = {}
         THEN Reject(Response("delete", taskId, "404", "Task not found"))
       ELSE
         /\ UNCHANGED nextId
         /\ Accept(Response("delete", taskId, "204", ""),
                   DeleteRow(tasks, taskId), broadcast(u, "task:deleted", taskId))

\* PUT /api/boards/:boardId/tasks/:taskId
UpdateTask(u, boardId, taskId, valid, columnId, position) ==
    /\ impl = "server"
    /\ IF OwnedTask(u, taskId) = {}
         THEN Reject(Response("update", taskId, "404", "Task not found"))
       ELSE IF ~valid
         THEN Reject(Response("update", taskId, "400", "Invalid title"))
       ELSE
         /\ UNCHANGED nextId
         /\ Accept(Response("update", taskId, "200", ""),
                   SetFields(tasks, taskId, columnId, position),
                   broadcast(u, "task:updated", taskId))

(* ------------------------------ TaskRepo ------------------------------ *)
\* The repository writes no frames.
\* PRAGMA foreign_keys = ON; column_id TEXT NOT NULL REFERENCES columns(id),
\* board_id TEXT NOT NULL REFERENCES boards(id)
ForeignKeysHold(rows) ==
    \A r \in rows : r.col \in DOMAIN ColumnBoard /\ r.board \in DOMAIN BoardOwner

FkError == "FOREIGN KEY constraint failed"

\* TaskRepo.create(data): position is data.position, 0 when absent.
TaskRepo_create(columnId, boardId, position) ==
    /\ impl = "repo"
    /\ IF ~(columnId \in DOMAIN ColumnBoard /\ boardId \in DOMAIN BoardOwner)
         THEN Reject(Response("create", "", "throw", FkError))
       ELSE /\ nextId < Len(IdOrder)
            /\ nextId' = nextId + 1
            /\ LET id == IdOrder[nextId + 1]
                   row == [id |-> id, col |-> columnId, board |-> boardId,
                           pos |-> IF position = NoPos THEN 0 ELSE position]
               IN Accept(Response("create", id, "row", ""),
                         tasks \cup {row}, {})

\* TaskRepo.move(taskId, targetColumnId, position): the shift and the
\* reassignment in one transaction, which commits unless a statement throws.
TaskRepo_move(taskId, targetColumnId, position) ==
    /\ impl = "repo"
    /\ LET shifted == ShiftFrom(tasks, targetColumnId, position)
           rows == Reassign(shifted, taskId, targetColumnId, position)
       IN IF ~ForeignKeysHold(rows)
            THEN Reject(Response("move", taskId, "throw", FkError))
          ELSE /\ UNCHANGED nextId
               /\ Accept(Response("move", taskId,
                                  IF findById(tasks, taskId) = {} THEN "undefined" ELSE "row", ""),
                         rows, {})

\* TaskRepo.delete(id): run(id).changes > 0
TaskRepo_delete(id) ==
    /\ impl = "repo"
    /\ UNCHANGED nextId
    /\ Accept(Response("delete", id,
                       IF findById(tasks, id) = {} THEN "false" ELSE "true", ""),
              DeleteRow(tasks, id), {})

\* TaskRepo.update(id, data), data carrying column_id and position or not.
TaskRepo_update(id, columnId, position) ==
    /\ impl = "repo"
    /\ LET rows == SetFields(tasks, id, columnId, position)
       IN IF ~ForeignKeysHold(rows)
            THEN Reject(Response("update", id, "throw", FkError))
          ELSE /\ UNCHANGED nextId
               /\ Accept(Response("update", id,
                                  IF findById(tasks, id) = {} THEN "undefined" ELSE "row", ""),
                         rows, {})

(* --------------------------- real-time channel ------------------------ *)
Sockets == {"s1", "s2", "s3"}

\* No identity: undefined / null.
NoUser == ""

\* An identity the verifier returns as a number, and the string String()
\* makes of it; every other identity is a string.
NumericId == "#7"

NumericText == "7"

\* The identity the placeholder verifier gives to a token it cannot decode.
Anonymous == "anonymous"

\* String(userId)
String(userId) == IF userId = NumericId THEN NumericText ELSE userId

\* The credential of a connection: none, a token that cannot be decoded or
\* verified, or a token whose payload carries the id (NoUser: carries none).
NoToken == [kind |-> "none", id |-> NoUser]

Garbage == [kind |-> "garbage", id |-> NoUser]

Jwt(id) == [kind |-> "jwt", id |-> id]

\* new Map()
NoClients == [u \in {} |-> {}]

\* Sockets connected and registered as reg says, each with its user's token.
SocketsOf(reg) ==
    [s \in Sockets |->
        IF \E u \in DOMAIN reg : s \in reg[u]
          THEN LET u == CHOOSE v \in DOMAIN reg : s \in reg[v]
               IN [readyState |-> OPEN, cred |-> Jwt(u), userId |-> u]
        ELSE [readyState |-> CONNECTING, cred |-> NoToken, userId |-> NoUser]]

\* if (!clients.has(uid)) clients.set(uid, new Set()); clients.get(uid).add(ws)
Register(reg, uid, s) ==
    [k \in DOMAIN reg \cup {uid} |-> IF k = uid
                                       THEN (IF uid \in DOMAIN reg THEN reg[uid] ELSE {}) \cup {s}
                                     ELSE reg[k]]

\* Variant of Unregister: the emptied set stays in the map.
Unregister_KeepEntry(reg, uid, s) ==
    IF uid \notin DOMAIN reg THEN reg ELSE [reg EXCEPT ![uid] = @ \ {s}]

\* set.delete(ws); if (set.size === 0) clients.delete(uid)
Unregister(reg, uid, s) ==
    IF uid \notin DOMAIN reg THEN reg
    ELSE IF reg[uid] \ {s} = {} THEN [k \in DOMAIN reg \ {uid} |-> reg[k]]
    ELSE [reg EXCEPT ![uid] = @ \ {s}]

Frame(s, type, id) == [sock |-> s, type |-> type, id |-> id]

\* What a client sends: the three known types (typing with and without a
\* taskId), a type the server does not know, and text that is not JSON.
Frames == {"ping", "typing", "typing:notask", "presence:update", "unknown", "malformed"}

\* The task a typing frame names.
TypingTask == "A"

\* The close handshake of a registered socket starts (readyState leaves OPEN
\* before the 'close' event).
SocketClosing(s) ==
    /\ socks[s].readyState = OPEN
    /\ socks' = [socks EXCEPT ![s].readyState = CLOSING]
    /\ UNCHANGED <<impl, tasks, nextId, clients, sent, last, disk, diskOk, failed, count, notes, nextNoteId, bus, hook, service, taskStore>>

\* part_001, wss.on('connection'): no token or a token jwt.verify rejects
\* -> ws.close(4001); else register under payload.id and send the ack.
ws_connection(s, cred) ==
    /\ impl = "server"
    /\ socks[s].readyState = CONNECTING
    /\ UNCHANGED <<impl, tasks, nextId, disk, diskOk, failed, count, notes, nextNoteId, bus, hook, service, taskStore>>
    /\ IF cred.kind # "jwt"
         THEN /\ socks' = [socks EXCEPT ![s] = [readyState |-> CLOSING, cred |-> cred, userId |-> NoUser]]
              /\ clients' = clients
              /\ sent' = {}
              /\ last' = Response("connection", "", "4001",
                                  IF cred = NoToken THEN "Token required" ELSE "Invalid token")
       ELSE /\ socks' = [socks EXCEPT ![s] = [readyState |-> OPEN, cred |-> cred, userId |-> cred.id]]
            /\ clients' = Register(clients, cred.id, s)
            /\ sent' = {Frame(s, "connection:ack", "")}
            /\ last' = Response("connection", "", "ack", "")

\* part_001, ws.on('close'), attached to registered sockets only; a socket
\* that was refused ends its close handshake with no handler.
ws_close(s) ==
    /\ impl = "server"
    /\ socks[s].readyState \in {OPEN, CLOSING}
    /\ socks' = [socks EXCEPT ![s].readyState = CLOSED]
    /\ clients' = IF socks[s].userId # NoUser /\ socks[s].userId \in DOMAIN clients
                    THEN Unregister(clients, socks[s].userId, s)
                  ELSE clients
    /\ UNCHANGED <<impl, tasks, nextId, sent, last, disk, diskOk, failed, count, notes, nextNoteId, bus, hook, service, taskStore>>

\* Variant of ws_message: a frame that is not a ping is answered with an error.
ws_message_Echo(s, frame) ==
    /\ impl = "server"
    /\ socks[s].readyState = OPEN
    /\ sent' = {Frame(s, IF frame = "ping" THEN "pong" ELSE "error", "")}
    /\ last' = Response("message", "", frame, "")
    /\ UNCHANGED <<impl, tasks, nextId, clients, disk, diskOk, channel, notes, nextNoteId, bus, hook, service, taskStore>>

\* part_001, ws.on('message'): a ping is answered with a pong, everything else
\* (other types, text that JSON.parse rejects) is dropped.
ws_message(s, frame) ==
    /\ impl = "server"
    /\ socks[s].readyState = OPEN
    /\ sent' = IF frame = "ping" THEN {Frame(s, "pong", "")} ELSE {}
    /\ last' = Response("message", "", frame, "")
    /\ UNCHANGED <<impl, tasks, nextId, clients, disk, diskOk, channel, notes, nextNoteId, bus, hook, service, taskStore>>

\* verifyToken(token) of part_009: the payload of the token, or the anonymous
\* user when the token cannot be decoded.
verifyToken(cred) == IF cred.kind = "jwt" THEN cred.id ELSE Anonymous

\* RealtimeServer.attach: server.on('upgrade') and wss.on('connection').
\* No token -> 401; verifyToken gives no user or no id -> 403; the socket is
\* destroyed.  Else ws.userId = user.id, register, send the ack.
RealtimeServer_attach(s, cred) ==
    /\ impl = "realtime"
    /\ socks[s].readyState = CONNECTING
    /\ UNCHANGED <<impl, tasks, nextId, disk, diskOk, failed, count, notes, nextNoteId, bus, hook, service, taskStore>>
    /\ IF cred = NoToken \/ verifyToken(cred) = NoUser
         THEN /\ socks' = [socks EXCEPT ![s] = [readyState |-> CLOSED, cred |-> cred, userId |-> NoUser]]
              /\ clients' = clients
              /\ sent' = {}
              /\ last' = Response("connection", "", IF cred = NoToken THEN "401" ELSE "403", "")
       ELSE LET uid == verifyToken(cred)
            IN /\ socks' = [socks EXCEPT ![s] = [readyState |-> OPEN, cred |-> cred, userId |-> uid]]
               /\ clients' = Register(clients, uid, s)
               /\ sent' = {Frame(s, "connection:ack", "")}
               /\ last' = Response("connection", "", "ack", "")

\* part_009, ws.on('close')
RealtimeServer_close(s) ==
    /\ impl = "realtime"
    /\ socks[s].readyState \in {OPEN, CLOSING}
    /\ socks' = [socks EXCEPT ![s].readyState = CLOSED]
    /\ clients' = Unregister(clients, socks[s].userId, s)
    /\ UNCHANGED <<impl, tasks, nextId, sent, last, disk, diskOk, failed, count, notes, nextNoteId, bus, hook, service, taskStore>>

\* get onlineUserIds: [...this.clients.keys()]
onlineUserIds == DOMAIN clients

\* _send(ws, data) for each socket of targets: ws.send throws for the sockets
\* of bad, and the catch logs the error.
Written(targets, bad, type, id) == {Frame(s, type, id) : s \in targets \ bad}

\* RealtimeServer.sendToUser(userId, message): the open sockets of
\* clients.get(String(userId)); returns the number of calls of _send.
RealtimeServer_sendToUser(userId, message, bad) ==
    /\ impl = "realtime"
    /\ LET key == String(userId)
           targets == IF key \in DOMAIN clients THEN OpenOf(clients, {key}) ELSE {}
       IN /\ sent' = Written(targets, bad, message, "")
          /\ failed' = targets \cap bad
          /\ count' = Cardinality(targets)
    /\ last' = Response("sendToUser", userId, "returned", "")
    /\ UNCHANGED <<impl, tasks, nextId, clients, disk, diskOk, socks, notes, nextNoteId, bus, hook, service, taskStore>>

\* RealtimeServer.broadcast(message, excludeUserId)
RealtimeServer_broadcast(message, excludeUserId, bad) ==
    /\ impl = "realtime"
    /\ LET targets == OpenOf(clients, DOMAIN clients \ {excludeUserId})
       IN /\ sent' = Written(targets, bad, message, "")
          /\ failed' = targets \cap bad
          /\ count' = Cardinality(targets)
    /\ last' = Response("broadcast", excludeUserId, "returned", "")
    /\ UNCHANGED <<impl, tasks, nextId, clients, disk, diskOk, socks, notes, nextNoteId, bus, hook, service, taskStore>>

\* RealtimeServer._handleMessage(ws, raw)
RealtimeServer_handleMessage(s, frame, bad) ==
    /\ impl = "realtime"
    /\ socks[s].readyState = OPEN
    /\ LET targets == IF frame \in {"ping", "presence:update"} THEN {s}
                      ELSE IF frame = "typing"
                        THEN OpenOf(clients, DOMAIN clients \ {socks[s].userId})
                      ELSE {}
           type == IF frame = "ping" THEN "pong"
                   ELSE IF frame = "presence:update" THEN "presence:ack"
                   ELSE "typing"
       IN /\ sent' = Written(targets, bad, type, IF frame = "typing" THEN TypingTask ELSE "")
          /\ failed' = targets \cap bad
    /\ last' = Response("message", "", frame, "")
    /\ UNCHANGED <<impl, tasks, nextId, clients, disk, diskOk, socks, count, notes, nextNoteId, bus, hook, service, taskStore>>

(* ----------------------------- notifications ------------------------- *)
\* String(nextId++) of the notification store: the decimal text of the
\* counter.
Decimal == <<"1", "2", "3", "4", "5", "6", "7", "8", "9">>

\* templates[type](payload).title; a type without a template is its own
\* title.
Title(type) ==
    CASE type = "task:assigned" -> "New task assigned"
      [] type = "task:completed" -> "Task completed"
      [] type = "task:commented" -> "New comment"
      [] type = "system" -> "System notification"
      [] OTHER -> type

\* templates[type](payload).body for a payload that names the task taskId.
Body(type, taskId) ==
    CASE type = "task:assigned" -> "You were assigned " \o taskId
      [] type = "task:completed" -> taskId \o " was marked complete"
      [] type = "task:commented" -> "Someone commented on " \o taskId
      [] type = "system" -> ""
      [] OTHER -> "{taskId:" \o taskId \o "}"

\* A record of the notification store, as db.create makes it from the
\* counter value n: { id: String(nextId++), userId, type, ...content,
\* meta: payload, read: false }.
Note(n, userId, type, taskId) ==
    [id |-> Decimal[n], userId |-> userId, type |-> type, title |-> Title(type),
     body |-> Body(type, taskId), read |-> FALSE, taskId |-> taskId]

\* notify(uid, type, payload) for each uid of the list userIds, in its order:
\* the records db.create pushes.
Created(userIds, type, taskId) ==
    [i \in 1..Len(userIds) |-> Note(nextNoteId + i - 1, userIds[i], type, taskId)]

\* ... and the frames its wsServer.sendToUser(uid, { type: 'notification:new' })
\* writes, and the sockets whose write throws.
PushTargets(userIds) ==
    UNION {IF String(userIds[i]) \in DOMAIN clients THEN OpenOf(clients, {String(userIds[i])}) ELSE {} :
             i \in 1..Len(userIds)}

\* The listeners of the notification service have created the records
\* created for the event of the acting user actor and pushed them to the
\* sockets of userIds.
Notified(event, actor, userIds, created, bad) ==
    /\ nextNoteId + Len(created) <= MaxNotes + 1
    /\ notes' = notes \o created
    /\ nextNoteId' = nextNoteId + Len(created)
    /\ sent' = Written(PushTargets(userIds), bad, "notification:new", "")
    /\ failed' = PushTargets(userIds) \cap bad
    /\ last' = Response(event, actor, "handled", "")
    /\ UNCHANGED <<impl, tasks, nextId, clients, disk, diskOk, socks, count, bus, hook, service, taskStore>>

\* Variant of on_task_assigned: the assigning user is notified as well.
on_task_assigned_Both(taskId, assigneeId, assignedBy, bad) ==
    /\ impl = "realtime"
    /\ LET to == IF assigneeId # NoUser THEN <<assigneeId, assignedBy>> ELSE <<>>
       IN Notified("task:assigned", assignedBy, to, Created(to, "task:assigned", taskId), bad)

\* eventBus.on('task:assigned'): if (payload.assigneeId) notify(assigneeId, ...)
on_task_assigned(taskId, assigneeId, assignedBy, bad) ==
    /\ impl = "realtime"
    /\ LET to == IF assigneeId # NoUser THEN <<assigneeId>> ELSE <<>>
       IN Notified("task:assigned", assignedBy, to, Created(to, "task:assigned", taskId), bad)

\* eventBus.on('task:completed'): (payload.watcherIds || []).forEach(notify)
on_task_completed(watcherIds, completedBy, bad) ==
    /\ impl = "realtime"
    /\ Notified("task:completed", completedBy, watcherIds,
                Created(watcherIds, "task:completed", TypingTask), bad)

\* eventBus.on('task:commented'): forEach subscriber, if (uid !== payload.authorId) notify
on_task_commented(subscriberIds, authorId, bad) ==
    /\ impl = "realtime"
    /\ LET to == SelectSeq(subscriberIds, LAMBDA uid : uid # authorId)
       IN Notified("task:commented", authorId, to, Created(to, "task:commented", TypingTask), bad)

\* TaskService.update(taskId, data, requestingUserId) on a task with assignee
\* previousAssignee and creator creatorId; data carries assigneeId (or none)
\* and status 'done' or not; allowed: the task exists, the user may edit it
\* and the status change and priority are valid (else the call throws before
\* task.update).  Each notify.send({ userId, type }) is a notification.
TaskService_update(previousAssignee, creatorId, assigneeId, done, requestingUserId, allowed) ==
    /\ impl = "realtime"
    /\ LET assigned == IF assigneeId # NoUser /\ assigneeId # previousAssignee
                         THEN <<Note(nextNoteId, assigneeId, "task_assigned", TypingTask)>> ELSE <<>>
           completed == IF done /\ creatorId # requestingUserId
                          THEN <<Note(nextNoteId + Len(assigned), creatorId, "task_completed", TypingTask)>>
                        ELSE <<>>
           created == IF allowed THEN assigned \o completed ELSE <<>>
       IN /\ nextNoteId + Len(created) <= MaxNotes + 1
          /\ notes' = notes \o created
          /\ nextNoteId' = nextNoteId + Len(created)
    /\ sent' = {}
    /\ failed' = {}
    /\ last' = Response("TaskService.update", requestingUserId, IF allowed THEN "handled" ELSE "throw", "")
    /\ UNCHANGED <<impl, tasks, nextId, clients, disk, diskOk, socks, count, bus, hook, service, taskStore>>

\* Variant of NotificationService_notify: a record is stored only for a
\* user who has an open socket.
NotificationService_notify_OnlineOnly(userId, type, taskId, bad) ==
    /\ impl = "realtime"
    /\ nextNoteId <= MaxNotes
    /\ LET notification == Note(nextNoteId, userId, type, taskId)
       IN /\ notes' = IF PushTargets(<<userId>>) = {} THEN notes ELSE Append(notes, notification)
          /\ sent' = Written(PushTargets(<<userId>>), bad, "notification:new", notification.id)
    /\ nextNoteId' = nextNoteId + 1
    /\ failed' = PushTargets(<<userId>>) \cap bad
    /\ count' = Cardinality(PushTargets(<<userId>>))
    /\ last' = Response("notify", userId, "returned", "")
    /\ UNCHANGED <<impl, tasks, nextId, clients, disk, diskOk, socks, bus, hook, service, taskStore>>

\* NotificationService.notify(userId, type, payload): db.create stores the
\* record, then wsServer.sendToUser(userId, { type: 'notification:new',
\* notification }) writes it to the sockets sendToUser finds; returns the
\* record.
NotificationService_notify(userId, type, taskId, bad) ==
    /\ impl = "realtime"
    /\ nextNoteId <= MaxNotes
    /\ LET notification == Note(nextNoteId, userId, type, taskId)
       IN /\ notes' = Append(notes, notification)
          /\ sent' = Written(PushTargets(<<userId>>), bad, "notification:new", notification.id)
    /\ nextNoteId' = nextNoteId + 1
    /\ failed' = PushTargets(<<userId>>) \cap bad
    /\ count' = Cardinality(PushTargets(<<userId>>))
    /\ last' = Response("notify", userId, "returned", "")
    /\ UNCHANGED <<impl, tasks, nextId, clients, disk, diskOk, socks, bus, hook, service, taskStore>>

\* JSON.stringify(ids) of a list of ids, as a frame carries it.
RECURSIVE Join(_)
Join(ids) ==
    IF ids = <<>> THEN ""
    ELSE IF Len(ids) = 1 THEN ids[1]
    ELSE ids[1] \o "," \o Join(Tail(ids))

\* ids.includes(id)
Includes(ids, id) == \E i \in 1..Len(ids) : ids[i] = id

\* Variant of db_markRead: the owner of the record is not compared.
db_markRead_AnyUser(store, ids, userId) ==
    [i \in 1..Len(store) |->
        IF Includes(ids, store[i].id) /\ ~store[i].read
          THEN [store[i] EXCEPT !.read = TRUE]
        ELSE store[i]]

\* db.markRead(ids, userId): the store after
\* if (ids.includes(n.id) && n.userId === userId && !n.read) n.read = true
db_markRead(store, ids, userId) ==
    [i \in 1..Len(store) |->
        IF Includes(ids, store[i].id) /\ store[i].userId = userId /\ ~store[i].read
          THEN [store[i] EXCEPT !.read = TRUE]
        ELSE store[i]]

\* db.markAllRead(userId)
db_markAllRead(store, userId) ==
    [i \in 1..Len(store) |->
        IF store[i].userId = userId /\ ~store[i].read
          THEN [store[i] EXCEPT !.read = TRUE]
        ELSE store[i]]

\* db.deleteForUser(userId): memoryStore.filter(n => n.userId !== userId)
db_deleteForUser(store, userId) == SelectSeq(store, LAMBDA n : n.userId # userId)

\* Variant of Counted: a record named is counted whether or not it was
\* unread.
Counted_Named(store, userId, ids, all) ==
    Cardinality({i \in 1..Len(store) :
                    (all \/ Includes(ids, store[i].id)) /\ store[i].userId = userId})

\* let count = 0 ... count++ ... return count of db.markRead (all = FALSE)
\* and db.markAllRead (all = TRUE): one for each record the loop marks.
Counted(store, userId, ids, all) ==
    Cardinality({i \in 1..Len(store) :
                    /\ all \/ Includes(ids, store[i].id)
                    /\ store[i].userId = userId
                    /\ ~store[i].read})

\* NotificationService.markRead(userId, ids): db.markRead, then the
\* notification:read frame to the sockets of userId; returns the count.
NotificationService_markRead(userId, ids, bad) ==
    /\ impl = "realtime"
    /\ notes' = db_markRead(notes, ids, userId)
    /\ count' = Counted(notes, userId, ids, FALSE)
    /\ sent' = Written(PushTargets(<<userId>>), bad, "notification:read", Join(ids))
    /\ failed' = PushTargets(<<userId>>) \cap bad
    /\ last' = Response("markRead", userId, "returned", "")
    /\ UNCHANGED <<impl, tasks, nextId, clients, disk, diskOk, socks, nextNoteId, bus, hook, service, taskStore>>

\* NotificationService.markAllRead(userId)
NotificationService_markAllRead(userId, bad) ==
    /\ impl = "realtime"
    /\ notes' = db_markAllRead(notes, userId)
    /\ count' = Counted(notes, userId, <<>>, TRUE)
    /\ sent' = Written(PushTargets(<<userId>>), bad, "notification:allRead", "")
    /\ failed' = PushTargets(<<userId>>) \cap bad
    /\ last' = Response("markAllRead", userId, "returned", "")
    /\ UNCHANGED <<impl, tasks, nextId, clients, disk, diskOk, socks, nextNoteId, bus, hook, service, taskStore>>

\* NotificationService.clearAll(userId): db.deleteForUser, no frame; returns
\* before - memoryStore.length.
NotificationService_clearAll(userId) ==
    /\ impl = "realtime"
    /\ notes' = db_deleteForUser(notes, userId)
    /\ count' = Len(notes) - Len(notes')
    /\ sent' = {}
    /\ failed' = {}
    /\ last' = Response("clearAll", userId, "returned", "")
    /\ UNCHANGED <<impl, tasks, nextId, clients, disk, diskOk, socks, nextNoteId, bus, hook, service, taskStore>>

\* The default page size of findByUser: { limit = 50, offset = 0 }.
DefaultLimit == 50

\* results.slice(offset, offset + limit)
Slice(seq, from, to) ==
    [i \in 1..(IF to < Len(seq) THEN (IF to > from THEN to - from ELSE 0)
               ELSE (IF Len(seq) > from THEN Len(seq) - from ELSE 0)) |-> seq[from + i]]

\* [...seq].reverse()
Reverse(seq) == [i \in 1..Len(seq) |-> seq[Len(seq) + 1 - i]]

\* db.findByUser(userId, { limit, offset, unreadOnly }): the records of
\* userId (unread ones only when asked), sorted by createdAt descending -
\* the newest first, records being created at distinct times - and sliced.
db_findByUser(store, userId, limit, offset, unreadOnly) ==
    LET results == SelectSeq(store, LAMBDA n : n.userId = userId /\ (unreadOnly => ~n.read))
    IN Slice(Reverse(results), offset, offset + limit)

\* NotificationService.getForUser(userId) with the default options.
getForUser(userId) == db_findByUser(notes, userId, DefaultLimit, 0, FALSE)

\* db.countUnread(userId)
db_countUnread(userId) == Len(SelectSeq(notes, LAMBDA n : n.userId = userId /\ ~n.read))

(* ------------------------------ event bus ----------------------------- *)
\* this._maxHistory = 200
maxHistory == 200

\* The envelope of the n-th emit: { event, payload, timestamp }, the
\* timestamp being the logical time n.
Envelope(event, payload, n) == [event |-> event, payload |-> payload, timestamp |-> n]

\* A handler h subscribed to the event on; does: the event it emits while it
\* runs, or NoCol when it emits none.
Handler(h, on, does) == [h |-> h, on |-> on, does |-> does]

\* What the bus returned last: nothing yet, the boolean of emit (whether the
\* event had listeners), or the events of recentEvents(n).
NoCall == [call |-> "none", n |-> 0, events |-> <<>>, had |-> FALSE]

\* new AppEventBus() with the handlers subscribed at start-up.
BusInit(subscribed) ==
    /\ history = <<>>
    /\ listeners = subscribed
    /\ trace = <<>>
    /\ emitted = 0
    /\ out = NoCall

\* Variant of Push: at capacity the newest envelope is dropped.
Push_DropNewest(hist, envelope) ==
    IF Len(hist) + 1 > maxHistory THEN hist ELSE Append(hist, envelope)

\* this._history.push(envelope);
\* if (this._history.length > this._maxHistory) this._history.shift()
Push(hist, envelope) ==
    IF Len(hist) + 1 > maxHistory THEN Tail(Append(hist, envelope)) ELSE Append(hist, envelope)

\* The handlers super.emit(event, ...) calls: those subscribed to event, in
\* the order of their subscription.
Subscribed(event) == SelectSeq(listeners, LAMBDA l : l.on = event)

\* What emit(event, payload) does when it is the n-th emit, at nesting
\* depth: it records the envelope, then calls each subscribed handler in
\* turn; a handler that emits runs that emit to its end before it returns.
\* The result is the trace of the records, calls and returns, in order.
RECURSIVE Run(_, _, _, _)
RECURSIVE RunHandlers(_, _, _, _, _)
Records(steps) == Len(SelectSeq(steps, LAMBDA e : e.kind = "record"))

\* Variant of Run: the handlers run first and the envelope is recorded when
\* they have returned.
Run_RecordLast(event, payload, n, depth) ==
    RunHandlers(Subscribed(event), event, payload, n, depth)
       \o <<[kind |-> "record", h |-> "", event |-> event, depth |-> depth,
             n |-> n + Records(RunHandlers(Subscribed(event), event, payload, n, depth))]>>

Run(event, payload, n, depth) ==
    <<[kind |-> "record", h |-> "", event |-> event, depth |-> depth, n |-> n]>>
       \o RunHandlers(Subscribed(event), event, payload, n + 1, depth)

RunHandlers(hs, event, payload, n, depth) ==
    IF hs = <<>> THEN <<>>
    ELSE LET inner == IF Head(hs).does # NoCol
                        THEN Run(Head(hs).does, payload, n, depth + 1)
                      ELSE <<>>
         IN <<[kind |-> "call", h |-> Head(hs).h, event |-> event, depth |-> depth, n |-> 0]>>
               \o inner
               \o <<[kind |-> "return", h |-> Head(hs).h, event |-> event, depth |-> depth, n |-> 0]>>
               \o RunHandlers(Tail(hs), event, payload, n + Records(inner), depth)

\* The history after the records of a trace, pushed in its order.
RECURSIVE Recorded(_, _, _)
Recorded(hist, steps, payload) ==
    IF steps = <<>> THEN hist
    ELSE Recorded(IF Head(steps).kind = "record"
                    THEN Push(hist, Envelope(Head(steps).event, payload, Head(steps).n))
                  ELSE hist,
                  Tail(steps), payload)

\* eventBus.emit(event, payload); returns whether the event had listeners.
\* (The bus without handlers is followed for MaxEmits emits, the bus with
\* handlers for MaxDispatch.)
emit(event, payload) ==
    /\ emitted < (IF listeners = <<>> THEN MaxEmits ELSE MaxDispatch)
    /\ trace' = Run(event, payload, emitted + 1, 0)
    /\ history' = Recorded(history, trace', payload)
    /\ emitted' = emitted + Records(trace')
    /\ out' = [call |-> "emit", n |-> 0, events |-> <<>>, had |-> Subscribed(event) # <<>>]
    /\ UNCHANGED <<impl, tasks, nextId, clients, sent, last, disk, diskOk, channel, notes,
                   nextNoteId, listeners, hook, service, taskStore>>

\* array.slice(start): from index start, counted from the end when negative.
SliceFrom(seq, start) ==
    LET from == IF start < 0
                  THEN (IF Len(seq) + start > 0 THEN Len(seq) + start ELSE 0)
                ELSE (IF start < Len(seq) THEN start ELSE Len(seq))
    IN SubSeq(seq, from + 1, Len(seq))

\* eventBus.recentEvents(n): this._history.slice(-n)
recentEvents(n) ==
    /\ out' = [call |-> "recentEvents", n |-> n, events |-> SliceFrom(history, -n), had |-> FALSE]
    /\ UNCHANGED <<impl, tasks, nextId, clients, sent, last, disk, diskOk, channel, notes,
                   nextNoteId, history, listeners, trace, emitted, hook, service, taskStore>>

(* ------------------------------ client hook -------------------------- *)
WS_RECONNECT_BASE_MS == 1000

WS_RECONNECT_MAX_MS == 30000

\* The user of the token the hook is given.
TokenUser == "u1"

\* Everything but the notification store and the hook.
backend == <<impl, tasks, nextId, clients, sent, last, disk, diskOk, channel, bus, service, taskStore>>

\* No GET request in flight.
NoFetch == [state |-> "none", notifications |-> <<>>, unreadCount |-> 0]

\* A frame on the socket of the hook: its type, the notification of a
\* notification:new and the ids of a notification:read.
Message(type, notification, ids) == [type |-> type, notification |-> notification, ids |-> ids]

\* No PATCH /read request of the hook in flight.
NoMark == [state |-> "none", ids |-> <<>>]

\* useState([]), useState(0), useState(false), useRef(null),
\* useRef(WS_RECONNECT_BASE_MS), before the effect has run.
HookInit ==
    /\ notifications = <<>>
    /\ unreadCount = 0
    /\ connected = FALSE
    /\ wsState = "none"
    /\ reconnectTimer = 0
    /\ reconnectDelay = WS_RECONNECT_BASE_MS
    /\ fetching = NoFetch
    /\ wire = <<>>
    /\ lost = 0
    /\ opens = 0
    /\ missed = FALSE
    /\ unmounted = FALSE
    /\ marking = NoMark

\* useEffect on mount: fetchNotifications() sends its GET and connectWs()
\* creates the WebSocket.
useEffect ==
    /\ wsState = "none"
    /\ fetching' = [NoFetch EXCEPT !.state = "sent"]
    /\ wsState' = "connecting"
    /\ UNCHANGED <<backend, notes, nextNoteId, notifications, unreadCount, connected,
                   reconnectTimer, reconnectDelay, wire, lost, opens, missed, unmounted, marking>>

\* router.get('/'): the server answers the GET with getForUser (limit 50)
\* and unreadCount of the user.
router_get ==
    /\ fetching.state = "sent"
    /\ fetching' = [state |-> "answered",
                    notifications |-> db_findByUser(notes, TokenUser, DefaultLimit, 0, FALSE),
                    unreadCount |-> db_countUnread(TokenUser)]
    /\ UNCHANGED <<backend, notes, nextNoteId, notifications, unreadCount, connected, wsState,
                   reconnectTimer, reconnectDelay, wire, lost, opens, missed, unmounted, marking>>

\* fetchNotifications after its await: the answer replaces the cache; a
\* request that failed or was answered with an error (ok = FALSE) changes
\* nothing.
fetchNotifications(ok) ==
    /\ IF ok THEN fetching.state = "answered" ELSE fetching.state # "none"
    /\ notifications' = IF ok THEN fetching.notifications ELSE notifications
    /\ unreadCount' = IF ok THEN fetching.unreadCount ELSE unreadCount
    /\ fetching' = NoFetch
    /\ UNCHANGED <<backend, notes, nextNoteId, connected, wsState, reconnectTimer,
                   reconnectDelay, wire, lost, opens, missed, unmounted, marking>>

\* Variant of ws_onopen: the delay is left as the failures made it.
ws_onopen_KeepDelay ==
    /\ wsState = "connecting"
    /\ opens < MaxOpens
    /\ wsState' = "open"
    /\ connected' = TRUE
    /\ reconnectDelay' = reconnectDelay
    /\ wire' = <<Message("connection:ack", <<>>, <<>>)>>
    /\ lost' = 0
    /\ opens' = opens + 1
    /\ UNCHANGED <<backend, notes, nextNoteId, notifications, unreadCount, reconnectTimer, fetching, missed, unmounted, marking>>

\* ws.onopen: setConnected(true); reconnectDelay.current = WS_RECONNECT_BASE_MS.
\* The server has registered the socket and written its connection:ack.
ws_onopen ==
    /\ wsState = "connecting"
    /\ opens < MaxOpens
    /\ wsState' = "open"
    /\ connected' = TRUE
    /\ reconnectDelay' = WS_RECONNECT_BASE_MS
    /\ wire' = <<Message("connection:ack", <<>>, <<>>)>>
    /\ lost' = 0
    /\ opens' = opens + 1
    /\ UNCHANGED <<backend, notes, nextNoteId, notifications, unreadCount, reconnectTimer, fetching, missed, unmounted, marking>>

\* ws.onclose, when the connection is lost or could not be made (ws.onerror
\* closes the socket) or when close() was called on it: setConnected(false)
\* and setTimeout(..., reconnectDelay.current); the frames not handled are
\* lost.
ws_onclose ==
    /\ wsState \in {"connecting", "open", "closing"}
    /\ lost < MaxLost
    /\ wsState' = "closed"
    /\ connected' = FALSE
    /\ reconnectTimer' = reconnectDelay
    /\ wire' = <<>>
    /\ lost' = lost + 1
    /\ UNCHANGED <<backend, notes, nextNoteId, notifications, unreadCount, reconnectDelay,
                   fetching, opens, missed, unmounted, marking>>

\* The cleanup of the effect, run when the component unmounts:
\* clearInterval(ping); clearTimeout(reconnectTimer.current);
\* wsRef.current?.close().  close() on a socket that is connecting or open
\* starts its closing handshake, and its close event fires later; on a
\* closed socket it does nothing.
cleanup ==
    /\ wsState # "none"
    /\ ~unmounted
    /\ unmounted' = TRUE
    /\ reconnectTimer' = 0
    /\ wsState' = IF wsState \in {"connecting", "open"} THEN "closing" ELSE wsState
    /\ UNCHANGED <<backend, notes, nextNoteId, notifications, unreadCount, connected,
                   reconnectDelay, fetching, wire, lost, opens, missed, marking>>

\* Math.min(a, b)
Min(a, b) == IF a < b THEN a ELSE b

\* The callback of the reconnect timer:
\* reconnectDelay.current = Math.min(reconnectDelay.current * 2, WS_RECONNECT_MAX_MS); connectWs()
reconnect ==
    /\ reconnectTimer # 0
    /\ reconnectDelay' = Min(reconnectDelay * 2, WS_RECONNECT_MAX_MS)
    /\ reconnectTimer' = 0
    /\ wsState' = "connecting"
    /\ UNCHANGED <<backend, notes, nextNoteId, notifications, unreadCount, connected,
                   fetching, wire, lost, opens, missed, unmounted, marking>>

\* ws.onmessage: the first frame waiting on the socket is applied to the
\* cache.
ws_onmessage ==
    /\ wsState = "open"
    /\ wire # <<>>
    /\ wire' = Tail(wire)
    /\ LET msg == Head(wire)
       IN CASE msg.type = "notification:new" ->
                 /\ notifications' = msg.notification \o notifications
                 /\ unreadCount' = unreadCount + 1
            [] msg.type = "notification:read" ->
                 /\ notifications' = [i \in 1..Len(notifications) |->
                                         IF Includes(msg.ids, notifications[i].id)
                                           THEN [notifications[i] EXCEPT !.read = TRUE]
                                         ELSE notifications[i]]
                 /\ unreadCount' = (IF unreadCount > Len(msg.ids) THEN unreadCount - Len(msg.ids) ELSE 0)
            [] msg.type = "notification:allRead" ->
                 /\ notifications' = [i \in 1..Len(notifications) |->
                                         [notifications[i] EXCEPT !.read = TRUE]]
                 /\ unreadCount' = 0
            [] OTHER -> UNCHANGED <<notifications, unreadCount>>
    /\ UNCHANGED <<backend, notes, nextNoteId, connected, wsState, reconnectTimer,
                   reconnectDelay, fetching, lost, opens, missed, unmounted, marking>>

\* The frames sendToUser writes to the socket of the hook: the frame when the
\* connection is open, nothing otherwise.
Pushed(msg) == IF wsState = "open" THEN Append(wire, msg) ELSE wire

\* NotificationService.notify for the user of the hook: the record is
\* stored, and pushed when the hook is connected.
notify_TokenUser(type, taskId) ==
    /\ nextNoteId <= MaxNotes
    /\ Len(wire) < MaxWire
    /\ notes' = Append(notes, Note(nextNoteId, TokenUser, type, taskId))
    /\ nextNoteId' = nextNoteId + 1
    /\ wire' = Pushed(Message("notification:new", <<Note(nextNoteId, TokenUser, type, taskId)>>, <<>>))
    /\ missed' = (missed \/ wsState # "open")
    /\ UNCHANGED <<backend, notifications, unreadCount, connected, wsState, reconnectTimer,
                   reconnectDelay, fetching, lost, opens, unmounted, marking>>

\* NotificationService.markRead and markAllRead for the user of the hook,
\* asked for by another client of that user (ids = <<>>: markAllRead).
markRead_TokenUser(ids) ==
    /\ Len(wire) < MaxWire
    /\ notes' = IF ids = <<>> THEN db_markAllRead(notes, TokenUser)
                ELSE db_markRead(notes, ids, TokenUser)
    /\ wire' = Pushed(IF ids = <<>> THEN Message("notification:allRead", <<>>, <<>>)
                      ELSE Message("notification:read", <<>>, ids))
    /\ missed' = (missed \/ (notes' # notes /\ wsState # "open"))
    /\ UNCHANGED <<backend, nextNoteId, notifications, unreadCount, connected, wsState,
                   reconnectTimer, reconnectDelay, fetching, lost, opens, unmounted, marking>>

\* NotificationService.clearAll for the user of the hook, asked for by
\* another client of that user: no frame is written.
clearAll_TokenUser ==
    /\ notes # <<>>
    /\ notes' = db_deleteForUser(notes, TokenUser)
    /\ missed' = (missed \/ wsState # "open")
    /\ UNCHANGED <<backend, nextNoteId, notifications, unreadCount, connected, wsState,
                   reconnectTimer, reconnectDelay, fetching, wire, lost, opens, unmounted, marking>>

\* markRead(ids) of the hook up to its await: the PATCH /read request is
\* sent.
markRead_fetch(ids) ==
    /\ wsState # "none"
    /\ marking = NoMark
    /\ marking' = [state |-> "sent", ids |-> ids]
    /\ UNCHANGED <<backend, notes, nextNoteId, notifications, unreadCount, connected, wsState,
                   reconnectTimer, reconnectDelay, fetching, wire, lost, opens, missed, unmounted>>

\* router.patch('/read') for the request of the hook:
\* service.markRead(uid(req), ids) marks the records and pushes
\* notification:read with the ids of the request to the sockets of the user,
\* the socket of the hook among them.
router_patch_read ==
    /\ marking.state = "sent"
    /\ Len(wire) < MaxWire
    /\ notes' = db_markRead(notes, marking.ids, TokenUser)
    /\ wire' = Pushed(Message("notification:read", <<>>, marking.ids))
    /\ marking' = [marking EXCEPT !.state = "answered"]
    /\ UNCHANGED <<backend, nextNoteId, notifications, unreadCount, connected, wsState,
                   reconnectTimer, reconnectDelay, fetching, lost, opens, missed, unmounted>>

\* markRead(ids) of the hook after its await: when fetch resolved (ok, with
\* any status) the records named are marked in the cache and unreadCount is
\* lowered by ids.length, not below 0; when fetch rejected (the request or
\* its answer was lost) nothing changes.
markRead(ok) ==
    /\ IF ok THEN marking.state = "answered" ELSE marking.state # "none"
    /\ notifications' = IF ok THEN [i \in 1..Len(notifications) |->
                                      IF Includes(marking.ids, notifications[i].id)
                                        THEN [notifications[i] EXCEPT !.read = TRUE]
                                      ELSE notifications[i]]
                        ELSE notifications
    /\ unreadCount' = IF ~ok THEN unreadCount
                      ELSE IF unreadCount > Len(marking.ids) THEN unreadCount - Len(marking.ids)
                      ELSE 0
    /\ marking' = NoMark
    /\ UNCHANGED <<backend, notes, nextNoteId, connected, wsState, reconnectTimer,
                   reconnectDelay, fetching, wire, lost, opens, missed, unmounted>>

(* ------------------------ task service (agent 5) ---------------------- *)
\* const STATUS_FLOW = { backlog: ['todo'], todo: ['in_progress', 'backlog'], ... }
STATUS_FLOW ==
    [s \in {"backlog", "todo", "in_progress", "blocked", "review", "done"} |->
        CASE s = "backlog" -> {"todo"}
          [] s = "todo" -> {"in_progress", "backlog"}
          [] s = "in_progress" -> {"review", "todo", "blocked"}
          [] s = "blocked" -> {"in_progress", "todo"}
          [] s = "review" -> {"done", "in_progress"}
          [] s = "done" -> {"todo"}]

\* Everything but the task service and last.
platform == <<impl, tasks, nextId, clients, sent, disk, diskOk, channel, notes, nextNoteId,
              bus, hook>>

\* task.creatorId of the tasks of the service; the users who call it are
\* editors of the project (_assertCanEdit passes).
Creator == "u1"

\* No call of update in this place.
Idle == [state |-> "idle", taskId |-> "", from |-> "", to |-> "", by |-> "", error |-> ""]

\* update after getById: the Task instance findByPk returned, with the status
\* the row had when it was read, and the arguments of the call.
Loaded(taskId, newStatus, by) ==
    [state |-> "loaded", taskId |-> taskId, from |-> taskStatus[taskId], to |-> newStatus,
     by |-> by, error |-> ""]

\* No bulkUpdateStatus under way or returned.
NoBulk == [state |-> "none", taskIds |-> <<>>, results |-> <<>>, succeeded |-> <<>>,
           failed |-> <<>>]

\* The Task rows A and B as create leaves them (status: data.status ||
\* 'backlog'), no call under way.
ServiceInit ==
    /\ taskStatus = [t \in {"A", "B"} |-> "backlog"]
    /\ updating = [c \in 1..MaxCalls |-> Idle]
    /\ sends = <<>>
    /\ bulk = NoBulk

\* _assertValidTransition(from, to) does not throw.
assertValidTransition(from, to) == from \in DOMAIN STATUS_FLOW /\ to \in STATUS_FLOW[from]

\* ValidationError(`Invalid status transition: "${from}" -> "${to}". ...`).message
TransitionError(from, to) == "Invalid status transition: " \o from \o " -> " \o to

\* moveToStatus(taskId, newStatus, requestingUserId), a call of its own:
\* update(taskId, { status: newStatus }, requestingUserId) up to the end of
\* getById and _assertCanEdit.
TaskService_moveToStatus(c, taskId, newStatus, by) ==
    /\ bulk.state # "running"
    /\ updating[c] = Idle
    /\ updating' = [updating EXCEPT ![c] = Loaded(taskId, newStatus, by)]
    /\ UNCHANGED <<platform, last, taskStatus, sends, bulk, taskStore>>

\* update from its status check on: if (data.status && data.status !==
\* task.status) _assertValidTransition(task.status, data.status), on the
\* instance it loaded; await task.update(data); notify.send of task_completed
\* to the creator when data.status === 'done' and another user asked.  The
\* promise of a call of bulkUpdateStatus settles; a call of its own returns
\* or throws to its caller (last, with the name of the error).
TaskService_update_write(c) ==
    /\ updating[c].state = "loaded"
    /\ LET call == updating[c]
           ok == call.to = call.from \/ assertValidTransition(call.from, call.to)
           message == IF ok THEN "" ELSE TransitionError(call.from, call.to)
       IN /\ taskStatus' = IF ok THEN [taskStatus EXCEPT ![call.taskId] = call.to] ELSE taskStatus
          /\ sends' = IF ok /\ call.to = "done" /\ Creator # call.by
                        THEN <<[userId |-> Creator, type |-> "task_completed"]>>
                      ELSE <<>>
          /\ last' = Response("update", call.taskId, IF ok THEN "fulfilled" ELSE "rejected",
                               IF ok THEN "" ELSE "ValidationError")
          /\ updating' = [updating EXCEPT ![c] =
                          IF bulk.state = "running"
                            THEN [call EXCEPT !.state = IF ok THEN "fulfilled" ELSE "rejected",
                                              !.error = message]
                          ELSE Idle]
    /\ UNCHANGED <<platform, bulk, taskStore>>

\* bulkUpdateStatus(taskIds, newStatus, requestingUserId) up to its await:
\* taskIds.map((id) => this.moveToStatus(id, newStatus, requestingUserId))
\* starts one call of update for each position of taskIds.
bulkUpdateStatus(taskIds, newStatus, by) ==
    /\ bulk.state # "running"
    /\ \A c \in 1..MaxCalls : updating[c] = Idle
    /\ Len(taskIds) <= MaxCalls
    /\ updating' = [c \in 1..MaxCalls |->
                    IF c <= Len(taskIds) THEN Loaded(taskIds[c], newStatus, by) ELSE Idle]
    /\ bulk' = [NoBulk EXCEPT !.state = "running", !.taskIds = taskIds]
    /\ UNCHANGED <<platform, last, taskStatus, sends, taskStore>>

\* bulkUpdateStatus after Promise.allSettled: results has one entry for each
\* position; succeeded is results.filter(fulfilled).map((r) => r.value) and
\* failed is results.filter(rejected).map((r, i) => ({ taskId: taskIds[i],
\* error: r.reason.message })).
bulkUpdateStatus_return ==
    /\ bulk.state = "running"
    /\ \A c \in 1..Len(bulk.taskIds) : updating[c].state \in {"fulfilled", "rejected"}
    /\ LET results == [c \in 1..Len(bulk.taskIds) |-> updating[c]]
           fulfilled == SelectSeq(results, LAMBDA r : r.state = "fulfilled")
           rejected == SelectSeq(results, LAMBDA r : r.state = "rejected")
       IN bulk' = [state |-> "returned",
                   taskIds |-> bulk.taskIds,
                   results |-> results,
                   succeeded |-> [i \in 1..Len(fulfilled) |-> fulfilled[i].taskId],
                   failed |-> [i \in 1..Len(rejected) |->
                                  [taskId |-> bulk.taskIds[i], error |-> rejected[i].error]]]
    /\ updating' = [c \in 1..MaxCalls |-> Idle]
    /\ UNCHANGED <<platform, last, taskStatus, sends, taskStore>>

(* ---------------------- client task store (agent 6) ------------------- *)
\* A Task of the store: the fields the store reads or writes.  updatedAt is
\* "client" for the time new Date() gives in the browser and "server" for a
\* time the server wrote; NoTask stands for undefined.
Task(id, title, columnId, order, status, updatedAt) ==
    [id |-> id, title |-> title, columnId |-> columnId, order |-> order, status |-> status,
     updatedAt |-> updatedAt]

NoTask == Task("", "", "", 0, "", "")

\* A place for a call of the store with no call in it.  A call keeps prev
\* (updateTask) and its arguments; columns is the taskIds of the columns when
\* the call started, which the code does not keep; task and board are what
\* the server answered.
Free ==
    [op |-> "none", state |-> "", taskId |-> "", prev |-> NoTask, title |-> "",
     columnId |-> "", order |-> 0, columns |-> [c \in {"Todo", "Done"} |-> <<>>],
     task |-> NoTask, board |-> [c \in {"Todo", "Done"} |-> <<>>]]

\* initialState: no boards, no tasks, error null, an empty optimisticUpdates
\* map (a task with no entry maps to NoTask).
StoreInit ==
    /\ storeTasks = <<>>
    /\ storeBoards = <<>>
    /\ optimisticUpdates = [t \in {"A", "B"} |-> NoTask]
    /\ storeError = "null"
    /\ requests = <<>>
    /\ remoteTasks = <<>>
    /\ remoteBoards = <<>>

\* columnStatusMap(columnTitle), on the titles of the columns of the board
\* ("Todo", "Done": the titles are the ids).
columnStatusMap(columnTitle) == IF columnTitle = "Done" THEN "done" ELSE "todo"

\* The taskIds of the columns after the task is taken out of its column
\* (filter) and put into toColumnId at newOrder (splice(newOrder, 0, taskId)).
MoveIn(columns, taskId, toColumnId, newOrder) ==
    LET without == [c \in DOMAIN columns |-> SelectSeq(columns[c], LAMBDA id : id # taskId)]
        at == IF newOrder < Len(without[toColumnId]) THEN newOrder ELSE Len(without[toColumnId])
    IN [without EXCEPT ![toColumnId] =
           SubSeq(without[toColumnId], 1, at) \o <<taskId>>
              \o SubSeq(without[toColumnId], at + 1, Len(without[toColumnId]))]

\* updateTask(taskId, updates) up to its await, updates being { title }: prev
\* is read, the optimistic task replaces it in the cache, prev is stored in
\* optimisticUpdates under taskId, and the PATCH is sent.
updateTask(r, taskId, title) ==
    /\ requests[r].op = "none"
    /\ requests' = [requests EXCEPT ![r] =
                       [Free EXCEPT !.op = "updateTask", !.state = "sent", !.taskId = taskId,
                                    !.prev = storeTasks[taskId], !.title = title,
                                    !.columns = storeBoards]]
    /\ storeTasks' = [storeTasks EXCEPT ![taskId] =
                         [storeTasks[taskId] EXCEPT !.title = title, !.updatedAt = "client"]]
    /\ optimisticUpdates' = [optimisticUpdates EXCEPT ![taskId] = storeTasks[taskId]]
    /\ UNCHANGED <<platform, last, service, storeBoards, storeError, remoteTasks, remoteBoards>>

\* updateTask after its await: the task the server returned replaces the
\* cached one, or prev is put back, s.error set and the error thrown again;
\* both delete the entry of taskId.
updateTask_settled(r) ==
    /\ requests[r].op = "updateTask"
    /\ requests[r].state \in {"ok", "failed"}
    /\ LET call == requests[r]
       IN /\ storeTasks' = [storeTasks EXCEPT ![call.taskId] =
                               IF call.state = "ok" THEN call.task ELSE call.prev]
          /\ optimisticUpdates' = [optimisticUpdates EXCEPT ![call.taskId] = NoTask]
          /\ storeError' = IF call.state = "ok" THEN storeError ELSE "API error"
          /\ last' = Response("updateTask", call.taskId,
                              IF call.state = "ok" THEN "fulfilled" ELSE "rejected", "")
    /\ requests' = [requests EXCEPT ![r] = Free]
    /\ UNCHANGED <<platform, service, storeBoards, remoteTasks, remoteBoards>>

\* moveTask(taskId, toColumnId, newOrder) up to its await: the task id moves
\* between the taskIds of the columns, the cached task gets the column, the
\* order and the status of the column, and the POST is sent.
moveTask(r, taskId, toColumnId, newOrder) ==
    /\ requests[r].op = "none"
    /\ requests' = [requests EXCEPT ![r] =
                       [Free EXCEPT !.op = "moveTask", !.state = "sent", !.taskId = taskId,
                                    !.prev = storeTasks[taskId], !.columnId = toColumnId,
                                    !.order = newOrder, !.columns = storeBoards]]
    /\ storeBoards' = MoveIn(storeBoards, taskId, toColumnId, newOrder)
    /\ storeTasks' = [storeTasks EXCEPT ![taskId] =
                         [storeTasks[taskId] EXCEPT !.columnId = toColumnId, !.order = newOrder,
                                                    !.status = columnStatusMap(toColumnId)]]
    /\ UNCHANGED <<platform, last, service, optimisticUpdates, storeError, remoteTasks,
                   remoteBoards>>

\* moveTask after its await: nothing on success; on failure
\* get().fetchBoard(task.boardId) sends its GET (the call goes on as a
\* fetchBoard), s.error is set, and the promise is fulfilled either way.
moveTask_settled(r) ==
    /\ requests[r].op = "moveTask"
    /\ requests[r].state \in {"ok", "failed"}
    /\ requests' = [requests EXCEPT ![r] =
                       IF requests[r].state = "ok" THEN Free
                       ELSE [Free EXCEPT !.op = "fetchBoard", !.state = "sent"]]
    /\ storeError' = IF requests[r].state = "ok" THEN storeError ELSE "API error"
    /\ last' = Response("moveTask", requests[r].taskId, "fulfilled", "")
    /\ UNCHANGED <<platform, service, storeTasks, storeBoards, optimisticUpdates, remoteTasks,
                   remoteBoards>>

\* fetchBoard after its await: s.boards[board.id] = board, or s.error.
fetchBoard_settled(r) ==
    /\ requests[r].op = "fetchBoard"
    /\ requests[r].state \in {"ok", "failed"}
    /\ storeBoards' = IF requests[r].state = "ok" THEN requests[r].board ELSE storeBoards
    /\ storeError' = IF requests[r].state = "ok" THEN storeError ELSE "API error"
    /\ requests' = [requests EXCEPT ![r] = Free]
    /\ UNCHANGED <<platform, last, service, storeTasks, optimisticUpdates, remoteTasks,
                   remoteBoards>>

\* apiFetch: the request of call r is answered.  With res.ok the server has
\* applied it - the title of the PATCH, the column and order of the move -
\* and answers with its task, or with its board for the GET; otherwise
\* (!res.ok, or fetch rejects) the server has changed nothing and apiFetch
\* throws.
apiFetch(r, ok) ==
    /\ requests[r].state = "sent"
    /\ LET call == requests[r]
           patched == [remoteTasks EXCEPT ![call.taskId] =
                          [remoteTasks[call.taskId] EXCEPT !.title = call.title,
                                                           !.updatedAt = "server"]]
           moved == [remoteTasks EXCEPT ![call.taskId] =
                        [remoteTasks[call.taskId] EXCEPT !.columnId = call.columnId,
                                                         !.order = call.order,
                                                         !.status = columnStatusMap(call.columnId),
                                                         !.updatedAt = "server"]]
       IN /\ remoteTasks' = IF ~ok \/ call.op = "fetchBoard" THEN remoteTasks
                            ELSE IF call.op = "updateTask" THEN patched ELSE moved
          /\ remoteBoards' = IF ok /\ call.op = "moveTask"
                               THEN MoveIn(remoteBoards, call.taskId, call.columnId, call.order)
                             ELSE remoteBoards
          /\ requests' = [requests EXCEPT ![r] =
                             [call EXCEPT !.state = IF ok THEN "ok" ELSE "failed",
                                          !.task = IF ok /\ call.op = "updateTask"
                                                     THEN patched[call.taskId] ELSE NoTask,
                                          !.board = IF ok /\ call.op = "fetchBoard"
                                                      THEN remoteBoards ELSE Free.board]]
    /\ UNCHANGED <<platform, last, service, storeTasks, storeBoards, optimisticUpdates,
                   storeError>>

(* --------------------------- specifications --------------------------- *)
NoRequest == Response("none", "", "", "")

Init ==
    /\ impl \in {"server", "repo"}
    /\ tasks = {}
    /\ nextId = 0
    /\ clients = [u \in Users |-> IF u = "u1" THEN {"s1", "s2"} ELSE {"s3"}]
    /\ sent = {}
    /\ last = NoRequest
    /\ disk = {}
    /\ diskOk = TRUE
    /\ socks = SocketsOf(clients)
    /\ failed = {}
    /\ count = 0
    /\ notes = <<>>
    /\ nextNoteId = 1
    /\ BusInit(<<>>)
    /\ HookInit
    /\ ServiceInit
    /\ StoreInit

ColInputs == Columns \cup {GhostCol, NoCol}

\* Callers: the owner of the board and the users who own no board.  A handler
\* answers a caller who does not own the board or the task, and a request
\* with an invalid title, before it reads columnId or position, so one body
\* stands for all the bodies of such a request.
Owners == {BoardOwner[b] : b \in Boards}

Strangers == Users \ Owners

Create ==
    \/ \E u \in Owners, b \in Boards, c \in ColInputs : CreateTask(u, b, TRUE, c)
    \/ \E u \in Owners, b \in Boards : CreateTask(u, b, FALSE, NoCol)
    \/ \E u \in Strangers, b \in Boards : CreateTask(u, b, TRUE, NoCol)
    \/ \E c \in Columns \cup {GhostCol}, b \in Boards, p \in PosInputs \cup {NoPos} :
          TaskRepo_create(c, b, p)

Move ==
    \/ \E u \in Owners, b \in Boards, t \in TaskIds, c \in ColInputs, p \in PosInputs \cup {NoPos} :
          MoveTask(u, b, t, c, p)
    \/ \E u \in Strangers, b \in Boards, t \in TaskIds : MoveTask(u, b, t, NoCol, NoPos)
    \/ \E t \in TaskIds, c \in Columns \cup {GhostCol}, p \in PosInputs : TaskRepo_move(t, c, p)

Delete ==
    \/ \E u \in Users, b \in Boards, t \in TaskIds : DeleteTask(u, b, t)
    \/ \E t \in TaskIds : TaskRepo_delete(t)

Update ==
    \/ \E u \in Owners, b \in Boards, t \in TaskIds, c \in Columns \cup {NoCol},
          p \in PosInputs \cup {NoPos} : UpdateTask(u, b, t, TRUE, c, p)
    \/ \E u \in Owners, b \in Boards, t \in TaskIds : UpdateTask(u, b, t, FALSE, NoCol, NoPos)
    \/ \E u \in Strangers, b \in Boards, t \in TaskIds : UpdateTask(u, b, t, TRUE, NoCol, NoPos)
    \/ \E t \in TaskIds, c \in ColInputs, p \in PosInputs \cup {NoPos} : TaskRepo_update(t, c, p)

\* Every request of the task API.
Next == Create \/ Move \/ Delete \/ Update

Spec == Init /\ [][Next]_vars

\* The ordering operations alone: create, move, delete.
NextStore == Create \/ Move \/ Delete

StoreSpec == Init /\ [][NextStore]_vars

\* The scenario of the move examples: Todo holds A, B, C at positions 0, 1, 2
\* and Done holds some of D, E at distinct positions; the owner moves tasks.
ScenarioIds == {"A", "B", "C", "D", "E"}

TaskRow(id, col, pos) == [id |-> id, col |-> col, pos |-> pos, board |-> "b1"]

TodoABC == {TaskRow("A", "Todo", 0), TaskRow("B", "Todo", 1), TaskRow("C", "Todo", 2)}

DoneContents ==
    {rows \in SUBSET {TaskRow(id, "Done", p) : id \in {"D", "E"}, p \in 0..(MaxPos - 1)} :
        /\ rows # {}
        /\ \A r1, r2 \in rows : (r1.id = r2.id \/ r1.pos = r2.pos) => r1 = r2}

ScenarioInit ==
    /\ impl \in {"server", "repo"}
    /\ \E done \in DoneContents : tasks = TodoABC \cup done
    /\ nextId = Len(IdOrder)
    /\ clients = [u \in Users |-> IF u = "u1" THEN {"s1", "s2"} ELSE {"s3"}]
    /\ sent = {}
    /\ last = NoRequest
    /\ disk = tasks
    /\ diskOk = TRUE
    /\ socks = SocketsOf(clients)
    /\ failed = {}
    /\ count = 0
    /\ notes = <<>>
    /\ nextNoteId = 1
    /\ BusInit(<<>>)
    /\ HookInit
    /\ ServiceInit
    /\ StoreInit

ScenarioNext ==
    \/ \E u \in Owners, b \in Boards, t \in ScenarioIds, c \in Columns, p \in PosInputs :
          MoveTask(u, b, t, c, p)
    \/ \E t \in ScenarioIds, c \in Columns, p \in PosInputs : TaskRepo_move(t, c, p)

ScenarioSpec == ScenarioInit /\ [][ScenarioNext]_vars

\* database.save() of the 30 s timer: try { database.save(); } catch {}
AutoSave ==
    /\ impl = "server"
    /\ disk' = IF diskOk THEN tasks ELSE disk
    /\ UNCHANGED <<impl, tasks, nextId, clients, sent, last, diskOk, channel, notes, nextNoteId, bus, hook, service, taskStore>>

\* main(): the process starts (again); it reads the database file when there
\* is one, runs CREATE TABLE IF NOT EXISTS, saves, and listens with an empty
\* clients map.  A failed save ends the process (main().catch -> exit).
main ==
    /\ impl = "server"
    /\ diskOk
    /\ tasks' = disk
    /\ clients' = NoClients
    /\ socks' = [s \in Sockets |->
                   IF socks[s].readyState = CONNECTING THEN socks[s]
                   ELSE [socks[s] EXCEPT !.readyState = CLOSED]]
    /\ sent' = {}
    /\ last' = NoRequest
    /\ UNCHANGED <<impl, nextId, disk, diskOk, failed, count, notes, nextNoteId, bus, hook, service, taskStore>>

\* The file system starts or stops accepting writes (fs.writeFileSync throws).
DiskChange ==
    /\ diskOk' = ~diskOk
    /\ UNCHANGED <<impl, tasks, nextId, clients, sent, last, disk, channel, notes, nextNoteId, bus, hook, service, taskStore>>

\* The tables a database file may hold when the server starts: tasks A and B
\* of column Todo at any positions, also at the same one (the tasks table has
\* no UNIQUE constraint on column_id, position).
PersistedContents ==
    {rows \in SUBSET {TaskRow(id, "Todo", p) : id \in {"A", "B"}, p \in 0..1} :
        \A r1, r2 \in rows : r1.id = r2.id => r1 = r2}

\* The server started on a database file and running; the owner of the board
\* works in its first column.
DurableInit ==
    /\ impl = "server"
    /\ disk \in PersistedContents
    /\ tasks = disk
    /\ nextId = 2
    /\ clients = [u \in Users |-> IF u = "u1" THEN {"s1", "s2"} ELSE {"s3"}]
    /\ sent = {}
    /\ last = NoRequest
    /\ diskOk = TRUE
    /\ socks = SocketsOf(clients)
    /\ failed = {}
    /\ count = 0
    /\ notes = <<>>
    /\ nextNoteId = 1
    /\ BusInit(<<>>)
    /\ HookInit
    /\ ServiceInit
    /\ StoreInit

DurableNext ==
    \/ \E u \in Owners, b \in Boards : CreateTask(u, b, TRUE, NoCol)
    \/ \E u \in Owners, b \in Boards, t \in TaskIds, p \in PosInputs :
          MoveTask(u, b, t, FirstColumn(b), p)
    \/ \E u \in Owners, b \in Boards, t \in TaskIds : DeleteTask(u, b, t)
    \/ AutoSave
    \/ main
    \/ DiskChange

DurableSpec == DurableInit /\ [][DurableNext]_vars

\* The messages the application hands to sendToUser and broadcast.
Messages == {"notification:new"}

\* The sockets whose next write throws: none, or the first socket.
BadSockets == {{}, {"s1"}}

\* The credentials a client of part_001 may hold: none, an undecodable or
\* unsigned token, a token the server signed for a user.  The first client
\* tries each of them, the second is another session of u1, the third is u2.
Credentials001(s) ==
    IF s = "s1" THEN {NoToken, Garbage} \cup {Jwt(u) : u \in Users}
    ELSE IF s = "s2" THEN {Jwt("u1")}
    ELSE {Jwt("u2")}

\* The credentials a client of part_009 may hold: none, an undecodable token,
\* tokens with a string id, a numeric id and no id in the payload.  The
\* first client tries each of them, the second is another session of u1, the
\* third a user with a numeric id.
Credentials009(s) ==
    IF s = "s1" THEN {NoToken, Garbage, Jwt("u1"), Jwt(NumericId), Jwt(NoUser)}
    ELSE IF s = "s2" THEN {Jwt("u1")}
    ELSE {Jwt(NumericId)}

\* The server with one task and one notification stored and nobody connected
\* yet.
RealtimeInit ==
    /\ impl \in {"server", "realtime"}
    /\ tasks = {TaskRow("A", "Todo", 0)}
    /\ nextId = Len(IdOrder)
    /\ clients = NoClients
    /\ sent = {}
    /\ last = NoRequest
    /\ disk = tasks
    /\ diskOk = TRUE
    /\ socks = SocketsOf(clients)
    /\ failed = {}
    /\ count = 0
    /\ notes = <<Note(1, "u1", "task:assigned", TypingTask)>>
    /\ nextNoteId = 2
    /\ BusInit(<<>>)
    /\ HookInit
    /\ ServiceInit
    /\ StoreInit

RealtimeNext ==
    \/ \E s \in Sockets : \E cred \in Credentials001(s) : ws_connection(s, cred)
    \/ \E s \in Sockets : SocketClosing(s)
    \/ \E s \in Sockets : ws_close(s)
    \/ \E s \in Sockets, f \in Frames : ws_message(s, f)
    \/ \E u \in Owners, b \in Boards, c \in Columns : MoveTask(u, b, "A", c, 0)
    \/ \E u \in Users, b \in Boards : DeleteTask(u, b, "A")
    \/ \E s \in Sockets : \E cred \in Credentials009(s) : RealtimeServer_attach(s, cred)
    \/ \E s \in Sockets : RealtimeServer_close(s)
    \/ \E s \in Sockets, f \in Frames, bad \in BadSockets : RealtimeServer_handleMessage(s, f, bad)
    \/ \E uid \in {"u1", "u2", NumericId, Anonymous}, m \in Messages, bad \in BadSockets :
          RealtimeServer_sendToUser(uid, m, bad)
    \/ \E ex \in {NoUser, "u1", NumericId}, m \in Messages, bad \in BadSockets :
          RealtimeServer_broadcast(m, ex, bad)

RealtimeSpec == RealtimeInit /\ [][RealtimeNext]_vars

\* The lists of user ids a payload may carry.
UserLists == {<<>>, <<"u1">>, <<"u2">>, <<"u1", "u2">>, <<"u2", "u1">>}

\* The notification service wired to the RealtimeServer, two sessions of u1
\* and one of u2 open, no notification stored.
NotifyInit ==
    /\ impl = "realtime"
    /\ tasks = {}
    /\ nextId = 0
    /\ clients = [u \in Users |-> IF u = "u1" THEN {"s1", "s2"} ELSE {"s3"}]
    /\ sent = {}
    /\ last = NoRequest
    /\ disk = {}
    /\ diskOk = TRUE
    /\ socks = SocketsOf(clients)
    /\ failed = {}
    /\ count = 0
    /\ notes = <<>>
    /\ nextNoteId = 1
    /\ BusInit(<<>>)
    /\ HookInit
    /\ ServiceInit
    /\ StoreInit

NotifyNext ==
    \/ \E t \in {"A", "B"}, to \in Users \cup {NoUser}, by \in Users, bad \in BadSockets :
          on_task_assigned(t, to, by, bad)
    \/ \E to \in UserLists, by \in Users, bad \in BadSockets : on_task_completed(to, by, bad)
    \/ \E to \in UserLists, by \in Users, bad \in BadSockets : on_task_commented(to, by, bad)
    \/ \E prev \in Users \cup {NoUser}, creator \in Users, to \in Users \cup {NoUser},
          done \in BOOLEAN, by \in Users, allowed \in BOOLEAN :
          TaskService_update(prev, creator, to, done, by, allowed)

NotifySpec == NotifyInit /\ [][NotifyNext]_vars

(* ============================ properties ============================== *)
\* The credentials of the clients of the notification service: a session of
\* u1 and a session of u1 or of the user with a numeric id; u2 never
\* connects.
CredentialsInbox(s) ==
    IF s = "s1" THEN {Jwt("u1")}
    ELSE IF s = "s2" THEN {Jwt("u1"), Jwt(NumericId)}
    ELSE {}

\* The notifications the application creates: who is notified of what.
Notices == {<<"u1", "task:assigned">>, <<"u2", "task:completed">>, <<NumericId, "system">>}

\* The lists of ids a PATCH /read carries.
IdLists == {<<"1">>, <<"2">>, <<"2", "1">>}

\* The notification service wired to the RealtimeServer, nothing stored and
\* nobody connected.
InboxInit ==
    /\ impl = "realtime"
    /\ tasks = {}
    /\ nextId = 0
    /\ clients = NoClients
    /\ sent = {}
    /\ last = NoRequest
    /\ disk = {}
    /\ diskOk = TRUE
    /\ socks = SocketsOf(clients)
    /\ failed = {}
    /\ count = 0
    /\ notes = <<>>
    /\ nextNoteId = 1
    /\ BusInit(<<>>)
    /\ HookInit
    /\ ServiceInit
    /\ StoreInit

InboxNext ==
    \/ \E s \in Sockets : \E cred \in CredentialsInbox(s) : RealtimeServer_attach(s, cred)
    \/ \E s \in Sockets : RealtimeServer_close(s)
    \/ \E n \in Notices : NotificationService_notify(n[1], n[2], TypingTask, {})
    \/ \E uid \in Users, ids \in IdLists : NotificationService_markRead(uid, ids, {})
    \/ \E uid \in Users : NotificationService_markAllRead(uid, {})
    \/ \E uid \in Users : NotificationService_clearAll(uid)

InboxSpec == InboxInit /\ [][InboxNext]_vars

\* A bus with no handler, on which one kind of event is emitted until the
\* history has passed its capacity, and recentEvents is called with no
\* count wanted, a few, the default, the capacity and more.
HistoryInit ==
    /\ impl = "realtime"
    /\ tasks = {}
    /\ nextId = 0
    /\ clients = NoClients
    /\ sent = {}
    /\ last = NoRequest
    /\ disk = {}
    /\ diskOk = TRUE
    /\ socks = SocketsOf(clients)
    /\ failed = {}
    /\ count = 0
    /\ notes = <<>>
    /\ nextNoteId = 1
    /\ BusInit(<<>>)
    /\ HookInit
    /\ ServiceInit
    /\ StoreInit

Counts == {0, 1, 2, 20, 200, 201}

HistoryNext ==
    \/ emit("task:assigned", TypingTask)
    \/ \E n \in Counts : recentEvents(n)

HistorySpec == HistoryInit /\ [][HistoryNext]_vars

\* The handlers of a bus: three on task:completed, the second of which
\* emits task:assigned; two on task:assigned, the second of which emits
\* mention; one on mention.  And the orders in which they subscribed.
Subscriptions ==
    LET h1 == Handler("h1", "task:completed", NoCol)
        h2 == Handler("h2", "task:completed", "task:assigned")
        h3 == Handler("h3", "task:completed", NoCol)
        h4 == Handler("h4", "task:assigned", NoCol)
        h5 == Handler("h5", "task:assigned", "mention")
        h6 == Handler("h6", "mention", NoCol)
    IN {<<h1, h2, h3, h4, h6>>, <<h6, h5, h4, h3, h2, h1>>, <<h6>>}

\* The events emitted: the three with handlers and one nobody listens to.
Events == {"task:assigned", "task:completed", "mention", "task:commented"}

DispatchInit ==
    /\ impl = "realtime"
    /\ tasks = {}
    /\ nextId = 0
    /\ clients = NoClients
    /\ sent = {}
    /\ last = NoRequest
    /\ disk = {}
    /\ diskOk = TRUE
    /\ socks = SocketsOf(clients)
    /\ failed = {}
    /\ count = 0
    /\ notes = <<>>
    /\ nextNoteId = 1
    /\ \E subscribed \in Subscriptions : BusInit(subscribed)
    /\ HookInit
    /\ ServiceInit
    /\ StoreInit

DispatchNext ==
    \/ \E e \in Events : emit(e, TypingTask)
    \/ \E n \in {0, 1} : recentEvents(n)

DispatchSpec == DispatchInit /\ [][DispatchNext]_vars

\* The hook of u1 before its effect has run, against a server with nothing
\* stored.
ClientInit ==
    /\ impl = "realtime"
    /\ tasks = {}
    /\ nextId = 0
    /\ clients = NoClients
    /\ sent = {}
    /\ last = NoRequest
    /\ disk = {}
    /\ diskOk = TRUE
    /\ socks = SocketsOf(clients)
    /\ failed = {}
    /\ count = 0
    /\ notes = <<>>
    /\ nextNoteId = 1
    /\ BusInit(<<>>)
    /\ HookInit
    /\ ServiceInit
    /\ StoreInit

ClientNext ==
    \/ useEffect
    \/ router_get
    \/ \E ok \in BOOLEAN : fetchNotifications(ok)
    \/ ws_onopen
    \/ ws_onclose
    \/ reconnect
    \/ ws_onmessage
    \/ notify_TokenUser("task:assigned", TypingTask)
    \/ \E ids \in {<<>>, <<"1">>} : markRead_TokenUser(ids)
    \/ clearAll_TokenUser

ClientSpec == ClientInit /\ [][ClientNext]_vars

\* The server with both boards in use: every user sends create and move
\* requests that name any board and any column.
BoardsInit == Init /\ impl = "server"

BoardsNext ==
    \/ \E u \in Users, b \in DOMAIN BoardOwner, c \in DOMAIN ColumnBoard \cup {NoCol} :
          CreateTask(u, b, TRUE, c)
    \/ \E u \in Users, b \in DOMAIN BoardOwner, t \in TaskIds, c \in DOMAIN ColumnBoard,
          p \in {0, NoPos} : MoveTask(u, b, t, c, p)

BoardsSpec == BoardsInit /\ [][BoardsNext]_vars

\* The task service with task A: users ask for status changes of A, and
\* their calls overlap.
StatusMenu == DOMAIN STATUS_FLOW \cup {"invalid_column"}

StatusNext ==
    \/ \E c \in 1..MaxCalls, newStatus \in StatusMenu, by \in Users :
          TaskService_moveToStatus(c, "A", newStatus, by)
    \/ \E c \in 1..MaxCalls : TaskService_update_write(c)

StatusSpec == ClientInit /\ [][StatusNext]_vars

\* The task service with tasks A and B: a user moves A along, one call at a
\* time, and asks for status changes of both tasks in bulk.
BulkNext ==
    \/ \E newStatus \in {"todo", "in_progress", "done"} :
          TaskService_moveToStatus(1, "A", newStatus, "u2")
    \/ \E c \in 1..MaxCalls : TaskService_update_write(c)
    \/ \E taskIds \in {<<"A", "B">>, <<"B", "A">>}, newStatus \in {"todo", "in_progress", "done"} :
          bulkUpdateStatus(taskIds, newStatus, "u2")
    \/ bulkUpdateStatus_return

BulkSpec == ClientInit /\ [][BulkNext]_vars

\* The store of a client after it has fetched the board: tasks A and B in
\* column Todo, as the server holds them, and no call under way.
TaskStoreInit ==
    /\ impl = "realtime"
    /\ tasks = {}
    /\ nextId = 0
    /\ clients = NoClients
    /\ sent = {}
    /\ last = NoRequest
    /\ disk = {}
    /\ diskOk = TRUE
    /\ socks = SocketsOf(clients)
    /\ failed = {}
    /\ count = 0
    /\ notes = <<>>
    /\ nextNoteId = 1
    /\ BusInit(<<>>)
    /\ HookInit
    /\ ServiceInit
    /\ storeTasks = [t \in {"A", "B"} |->
                        Task(t, "t0", "Todo", IF t = "A" THEN 0 ELSE 1, "todo", "server")]
    /\ storeBoards = [c \in {"Todo", "Done"} |-> IF c = "Todo" THEN <<"A", "B">> ELSE <<>>]
    /\ optimisticUpdates = [t \in {"A", "B"} |-> NoTask]
    /\ storeError = "null"
    /\ requests = [r \in 1..MaxRequests |-> Free]
    /\ remoteTasks = storeTasks
    /\ remoteBoards = storeBoards

\* The user edits the title of task A and moves it to the top of a column;
\* calls overlap, and the server accepts or refuses each request.
TaskStoreNext ==
    \/ \E r \in 1..MaxRequests : updateTask(r, "A", "t1")
    \/ \E r \in 1..MaxRequests : updateTask_settled(r)
    \/ \E r \in 1..MaxRequests, c \in {"Todo", "Done"} : moveTask(r, "A", c, 0)
    \/ \E r \in 1..MaxRequests : moveTask_settled(r)
    \/ \E r \in 1..MaxRequests : fetchBoard_settled(r)
    \/ \E r \in 1..MaxRequests, ok \in BOOLEAN : apiFetch(r, ok)

TaskStoreSpec == TaskStoreInit /\ [][TaskStoreNext]_vars

\* The user edits the title of task A, one call overlapping the other.
OverlapNext ==
    \/ \E r \in 1..MaxRequests, title \in {"t1", "t2"} : updateTask(r, "A", title)
    \/ \E r \in 1..MaxRequests : updateTask_settled(r)
    \/ \E r \in 1..MaxRequests, ok \in BOOLEAN : apiFetch(r, ok)

OverlapSpec == TaskStoreInit /\ [][OverlapNext]_vars

\* The hook mounted and later unmounted, on a connection that opens, fails
\* and is lost.
ShutdownNext ==
    \/ useEffect
    \/ router_get
    \/ \E ok \in BOOLEAN : fetchNotifications(ok)
    \/ ws_onopen
    \/ ws_onclose
    \/ reconnect
    \/ cleanup

ShutdownSpec == ClientInit /\ [][ShutdownNext]_vars

\* The hook of a user who has one unread notification, after its fetch was
\* applied and its socket opened; the connection stays up, notifications
\* arrive and the user marks notifications read in this client only.
MarkInit ==
    /\ impl = "realtime"
    /\ tasks = {}
    /\ nextId = 0
    /\ clients = NoClients
    /\ sent = {}
    /\ last = NoRequest
    /\ disk = {}
    /\ diskOk = TRUE
    /\ socks = SocketsOf(clients)
    /\ failed = {}
    /\ count = 0
    /\ notes = <<Note(1, TokenUser, "task:assigned", TypingTask)>>
    /\ nextNoteId = 2
    /\ BusInit(<<>>)
    /\ notifications = getForUser(TokenUser)
    /\ unreadCount = db_countUnread(TokenUser)
    /\ connected = TRUE
    /\ wsState = "open"
    /\ reconnectTimer = 0
    /\ reconnectDelay = WS_RECONNECT_BASE_MS
    /\ fetching = NoFetch
    /\ wire = <<>>
    /\ lost = 0
    /\ opens = 1
    /\ missed = FALSE
    /\ unmounted = FALSE
    /\ marking = NoMark
    /\ ServiceInit
    /\ StoreInit

MarkNext ==
    \/ notify_TokenUser("task:assigned", TypingTask)
    \/ \E ids \in IdLists : markRead_fetch(ids)
    \/ router_patch_read
    \/ \E ok \in BOOLEAN : markRead(ok)
    \/ ws_onmessage

MarkSpec == MarkInit /\ [][MarkNext]_vars

HasTask(rows, id) == \E r \in rows : r.id = id

RowOf(rows, id) == CHOOSE r \in rows : r.id = id

\* The ids handed out so far.
Allocated == {IdOrder[i] : i \in 1..nextId}

SuccessStatus == {"200", "201", "204", "row", "true"}

\* The position a move request asks for.
Target(p) == IF p = NoPos THEN 0 ELSE p

\* The step is a move request for task t, column c and position p.
MoveRequest(t, c, p) ==
    \/ \E u \in Users, b \in Boards : MoveTask(u, b, t, c, p)
    \/ p # NoPos /\ TaskRepo_move(t, c, p)

\* The step is a delete request for task t.
DeleteRequest(t) ==
    \/ \E u \in Users, b \in Boards : DeleteTask(u, b, t)
    \/ TaskRepo_delete(t)

\* The step is a successful request of kind op.
Succeeds(op) == last'.op = op /\ last'.status \in SuccessStatus

UniquePositions(rows) ==
    \A r1, r2 \in rows : (r1.col = r2.col /\ r1.pos = r2.pos) => r1 = r2

\* C1: after every completed create, move or delete no two tasks of one
\* column have the same position (so the column lists in a strict order).
C1_UniquePositions == UniquePositions(tasks)

\* C2: after a successful move of task t to index i of a column (i an index
\* of the column's resulting list), every listing of the column by position
\* has t at 0-based index i.
C2_MoveThenRead ==
    [][Succeeds("move") =>
         \A c \in Columns, p \in PosInputs \cup {NoPos} :
            (/\ MoveRequest(last'.id, c, p)
             /\ UniquePositions(tasks)
             /\ Target(p) < Cardinality(InColumn(tasks', c)))
            => \A s \in findByColumn(tasks', c) : s[Target(p) + 1] = last'.id]_vars

\* C4: a successful move of t to position k of column c adds one to the
\* position of every other task of c at position >= k, gives t column c and
\* position k, and changes no other task's column or position; the other
\* tasks of c keep their relative order, and no task appears or disappears.
C4_MoveFrame ==
    [][Succeeds("move") =>
         \A c \in Columns, p \in PosInputs \cup {NoPos} :
            MoveRequest(last'.id, c, p)
            => LET t == last'.id
                   k == Target(p)
               IN /\ {r.id : r \in tasks'} = {r.id : r \in tasks}
                  /\ RowOf(tasks', t).col = c
                  /\ RowOf(tasks', t).pos = k
                  /\ RowOf(tasks', t).board = RowOf(tasks, t).board
                  /\ \A r \in tasks : r.id # t =>
                        RowOf(tasks', r.id) =
                           IF r.col = c /\ r.pos >= k THEN [r EXCEPT !.pos = r.pos + 1] ELSE r
                  /\ \A r1, r2 \in InColumn(tasks, c) :
                        (r1.id # t /\ r2.id # t /\ r1.pos < r2.pos)
                        => RowOf(tasks', r1.id).pos < RowOf(tasks', r2.id).pos]_vars

\* A move has put a task between two others of its column: one below it that
\* kept its position, one above it.
C4_Witness ==
    /\ last.op = "move"
    /\ last.status \in SuccessStatus
    /\ \E x, lo, hi \in tasks :
          /\ x.id = last.id
          /\ lo.col = x.col /\ hi.col = x.col
          /\ lo.pos < x.pos /\ x.pos < hi.pos

\* Todo after the first move of the scenario: C, A, B at positions 0, 1, 2.
TodoCAB == {TaskRow("C", "Todo", 0), TaskRow("A", "Todo", 1), TaskRow("B", "Todo", 2)}

\* C3: from Todo = [A,B,C] at [0,1,2], moving C to Todo index 0 lists Todo as
\* [C,A,B]; then moving B to Done index 0 lists Todo as [C,A] and Done as B
\* followed by the tasks Done held, in their order, each one position higher.
C3_Scenario ==
    [][Succeeds("move") =>
         /\ (InColumn(tasks, "Todo") = TodoABC /\ MoveRequest("C", "Todo", 0))
            => /\ InColumn(tasks', "Todo") = TodoCAB
               /\ findByColumn(tasks', "Todo") = {<<"C", "A", "B">>}
               /\ InColumn(tasks', "Done") = InColumn(tasks, "Done")
         /\ (InColumn(tasks, "Todo") = TodoCAB /\ MoveRequest("B", "Done", 0))
            => /\ findByColumn(tasks', "Todo") = {<<"C", "A">>}
               /\ findByColumn(tasks', "Done") =
                     {<<"B">> \o s : s \in findByColumn(tasks, "Done")}
               /\ \A r \in InColumn(tasks, "Done") :
                     [r EXCEPT !.pos = r.pos + 1] \in tasks']_vars

\* The scenario has run to its end with D and E in Done.
C3_Witness ==
    /\ last = Response("move", "B", last.status, "")
    /\ last.status \in SuccessStatus
    /\ InColumn(tasks, "Todo") = {TaskRow("C", "Todo", 0), TaskRow("A", "Todo", 1)}
    /\ InColumn(tasks, "Done") =
          {TaskRow("B", "Done", 0), TaskRow("D", "Done", 1), TaskRow("E", "Done", 2)}

\* C5: a move that names no stored task, or a column that does not exist, is
\* answered with an error and leaves every stored task as it was.
C5_RejectedMoveChangesNothing ==
    [][last'.op = "move" =>
         \A c \in Columns \cup {GhostCol}, p \in PosInputs \cup {NoPos} :
            (MoveRequest(last'.id, c, p) /\ (~HasTask(tasks, last'.id) \/ c \notin Columns))
            => (last'.status \notin SuccessStatus /\ tasks' = tasks)]_vars

\* C6: a create, move or delete that is rejected writes no frame to any socket.
C6_NoBroadcastOnReject ==
    (last.op \in {"create", "move", "delete"} /\ last.status \notin SuccessStatus)
    => sent = {}

\* A move to a column that does not exist was rejected while tasks are stored
\* and another user is connected.
C6_Witness ==
    /\ last.op = "move"
    /\ last.error = "Target column not found"
    /\ tasks # {}
    /\ clients["u2"] # {}
    /\ sent = {}

\* C7: a delete that reports success found the task and removed it; a delete
\* of a task that is not stored reports not-found (404 / false), throws
\* nothing, changes no task and writes no frame; the owner's delete of a
\* stored task succeeds; and a deleted id never comes back, so every later
\* delete of it is such a not-found delete.
C7_DeleteIdempotent ==
    [][/\ \A t \in Allocated : ~HasTask(tasks, t) => ~HasTask(tasks', t)
       /\ last'.op = "delete" =>
            /\ DeleteRequest(last'.id)
               => /\ last'.status \in {"204", "true", "404", "false"}
                  /\ last'.status \in SuccessStatus
                        => (HasTask(tasks, last'.id) /\ ~HasTask(tasks', last'.id))
                  /\ ~HasTask(tasks, last'.id)
                        => (last'.status \in {"404", "false"} /\ tasks' = tasks /\ sent' = {})
            /\ \A u \in Owners, b \in Boards :
                  (HasTask(tasks, last'.id) /\ DeleteTask(u, b, last'.id))
                  => last'.status = "204"
            /\ (HasTask(tasks, last'.id) /\ TaskRepo_delete(last'.id))
                  => last'.status = "true"]_vars

\* A task that was handed out and deleted has been deleted again.
C7_Witness ==
    /\ last.op = "delete"
    /\ last.status \in {"404", "false"}
    /\ last.id \in Allocated
    /\ ~HasTask(tasks, last.id)

\* C8: a successful delete removes the task it names and leaves the column
\* and position of every other task as they were.
C8_DeleteFrame ==
    [][Succeeds("delete") =>
         (DeleteRequest(last'.id) => tasks' = {r \in tasks : r.id # last'.id})]_vars

\* A delete has left a gap: a task whose column has no task at the position
\* below its own.
C8_Witness ==
    /\ last.op = "delete"
    /\ last.status \in SuccessStatus
    /\ \E r \in tasks :
          /\ r.pos > 0
          /\ \A q \in InColumn(tasks, r.col) : q.pos # r.pos - 1
          /\ \E q \in InColumn(tasks, r.col) : q.pos < r.pos

\* C9: a successful move of a task to the column and position it already has
\* leaves every task as it was and, on the server, writes the task:moved
\* frame to the sockets of the other users.
C9_SamePlaceMoveIsNoOp ==
    [][Succeeds("move") =>
         \A c \in Columns, p \in PosInputs \cup {NoPos} :
            (/\ MoveRequest(last'.id, c, p)
             /\ HasTask(tasks, last'.id)
             /\ RowOf(tasks, last'.id).col = c
             /\ RowOf(tasks, last'.id).pos = Target(p))
            => /\ tasks' = tasks
               /\ impl = "server" =>
                     {f.type : f \in sent'} = {"task:moved"}]_vars

\* C10: a successful update of a task leaves the column and position of
\* every task as they were.
C10_UpdateKeepsOrder ==
    [][Succeeds("update") => tasks' = tasks]_vars

\* The table a request leaves when it is applied alone to rows: a move shifts
\* and reassigns, a delete removes the row.
MoveRows(rows, t, c, p) == Reassign(ShiftFrom(rows, c, Target(p)), t, c, Target(p))

\* C11: requests are applied one at a time, each as a whole: every accepted
\* move leaves exactly the table its shift followed by its reassignment
\* gives (the last of two moves of a task decides its column and position),
\* every accepted delete removes exactly its row, every accepted create adds
\* exactly one row under the new id, and a request that is answered with an
\* error or a not-found leaves the table as it was; so the table is always
\* the one the accepted requests give when applied in their order of arrival
\* and never one between a shift and its reassignment.
C11_Serialized ==
    [][last'.op \in {"create", "move", "delete"} =>
         /\ last'.status \notin SuccessStatus => tasks' = tasks
         /\ Succeeds("move") =>
               \A c \in Columns, p \in PosInputs \cup {NoPos} :
                  MoveRequest(last'.id, c, p) => tasks' = MoveRows(tasks, last'.id, c, p)
         /\ Succeeds("delete") => tasks' = DeleteRow(tasks, last'.id)
         /\ Succeeds("create") =>
               /\ ~HasTask(tasks, last'.id)
               /\ \E r \in tasks' : r.id = last'.id /\ tasks' = tasks \cup {r}]_vars

\* C12: whenever the last create, move or delete was answered with success,
\* and whenever its change message was written to a socket, the database
\* file holds the table the request left (the created or moved task is in
\* the file, the deleted one is not): no success and no change message goes
\* out for a change that is not in the file.
C12_DurableBeforeAck ==
    /\ (last.op \in {"create", "move", "delete"} /\ last.status \in SuccessStatus)
          => /\ disk = tasks
             /\ HasTask(disk, last.id) <=> last.op # "delete"
    /\ sent # {} => disk = tasks

\* A move was answered 200 and its change message written to a socket while
\* the file holds three tasks, the moved one among them.
C12_Witness ==
    /\ last = Response("move", last.id, "200", "")
    /\ sent # {}
    /\ diskOk
    /\ disk = tasks
    /\ HasTask(disk, last.id)
    /\ Cardinality(disk) = 3

\* C13: after the server starts, the table it loaded from the database file
\* has no two tasks of one column at the same position.
C13_LoadedUnique ==
    [][main => UniquePositions(tasks')]_vars

\* The step is a create, move, update or delete request of user u that names
\* (or is given) the task of the response.
MutationBy(u) ==
    \E b \in Boards :
       \/ \E c \in ColInputs : CreateTask(u, b, TRUE, c)
       \/ \E c \in ColInputs, p \in PosInputs \cup {NoPos} : MoveTask(u, b, last'.id, c, p)
       \/ DeleteTask(u, b, last'.id)
       \/ \E c \in ColInputs, p \in PosInputs \cup {NoPos} : UpdateTask(u, b, last'.id, TRUE, c, p)

\* The sockets registered to a user other than u and open.
OpenOfOthers(u) ==
    {s \in Sockets : socks[s].readyState = OPEN /\ socks[s].userId \notin {NoUser, u}}

\* C14: when a request of user A that changes a task is answered with
\* success, no socket registered to A is written the change message and
\* every open socket registered to another user is written it; and when
\* RealtimeServer.broadcast is called with A's identity to exclude, no socket
\* registered to A is written the message and every open socket of another
\* user whose write does not throw is written it.
C14_Exclusion ==
    [][/\ (last'.op \in {"create", "move", "update", "delete"} /\ last'.status \in SuccessStatus) =>
            \A u \in Users :
               MutationBy(u) =>
                  /\ \A f \in sent' : socks[f.sock].userId # u
                  /\ \A s \in OpenOfOthers(u) :
                        \E f \in sent' : f.sock = s /\ f.id = last'.id /\ f.type = "task:" \o
                              (IF last'.op = "move" THEN "moved"
                               ELSE IF last'.op = "delete" THEN "deleted"
                               ELSE IF last'.op = "create" THEN "created" ELSE "updated")
       /\ last'.op = "broadcast" =>
            \A ex \in DOMAIN clients, m \in Messages, bad \in BadSockets :
               RealtimeServer_broadcast(m, ex, bad) =>
                  /\ \A f \in sent' : socks[f.sock].userId # ex
                  /\ \A s \in OpenOfOthers(ex) \ bad : Frame(s, m, "") \in sent']_vars

\* The owner's move was answered 200 while two of the owner's sessions and a
\* session of another user were open: only the other user's socket was
\* written the frame.
C14_Witness ==
    /\ last = Response("move", "A", "200", "")
    /\ \A s \in {"s1", "s2"} : socks[s].readyState = OPEN /\ socks[s].userId = "u1"
    /\ socks["s3"].readyState = OPEN
    /\ socks["s3"].userId = "u2"
    /\ sent = {Frame("s3", "task:moved", "A")}

\* C15: every socket in the registry connected with a token that carries the
\* identity it is registered under, and no frame is written to a socket that
\* connected with no token or with a token that cannot be verified.
C15_VerifiedOnly ==
    /\ \A k \in DOMAIN clients : \A s \in clients[k] : socks[s].cred = Jwt(k)
    /\ \A f \in sent : socks[f.sock].cred.kind = "jwt"

\* The sockets that connected under an identity and have not closed.
Registered == {s \in Sockets : socks[s].userId # NoUser /\ socks[s].readyState \in {OPEN, CLOSING}}

\* C16: after any connects and closes no user of the registry has an empty
\* set, no socket is in the sets of two users, a closed socket is in no set,
\* every socket that connected under an identity and has not closed is in
\* that identity's set and in no other, and onlineUserIds is exactly the set
\* of identities with such a socket.
C16_RegistryShape ==
    /\ \A k \in DOMAIN clients : clients[k] # {}
    /\ \A k1, k2 \in DOMAIN clients : k1 # k2 => clients[k1] \cap clients[k2] = {}
    /\ \A k \in DOMAIN clients : \A s \in clients[k] :
          socks[s].readyState # CLOSED /\ socks[s].userId = k
    /\ \A s \in Registered : socks[s].userId \in DOMAIN clients /\ s \in clients[socks[s].userId]
    /\ onlineUserIds = {socks[s].userId : s \in Registered}

\* A user with two sessions has closed one and keeps the entry; the only
\* session of another user has closed and that user's entry is gone.
C16_Witness ==
    /\ socks["s1"].readyState = CLOSED
    /\ socks["s1"].userId = "u1"
    /\ socks["s2"].readyState = OPEN
    /\ socks["s3"].readyState = CLOSED
    /\ socks["s3"].userId \notin {NoUser, "u1"}
    /\ clients = [k \in {"u1"} |-> {"s2"}]

\* The step is a call of sendToUser or broadcast of the RealtimeServer.
DeliveryCall ==
    \E m \in Messages, bad \in BadSockets :
       \/ \E uid \in {"u1", "u2", NumericId, Anonymous} : RealtimeServer_sendToUser(uid, m, bad)
       \/ \E ex \in {NoUser, "u1", NumericId} : RealtimeServer_broadcast(m, ex, bad)

\* C17: after a call of sendToUser or broadcast, a socket whose write threw
\* during the call is in no set of the registry.
C17_FailedWriteRemoves ==
    [][(last'.op \in {"sendToUser", "broadcast"} /\ failed' # {} /\ DeliveryCall) =>
          \A s \in failed' : \A k \in DOMAIN clients' : s \notin clients'[k]]_vars

\* The open sockets registered to the identity userId.
OpenOfUser(userId) ==
    {s \in Sockets : socks[s].userId = userId /\ socks[s].readyState = OPEN}

\* C18: a call sendToUser(userId, message) in which no write throws writes
\* the message to exactly the open sockets registered to userId, whether the
\* identity is a string or a number, and returns their number; it writes
\* nothing and returns 0 when userId has no socket.
C18_SendToUser ==
    [][last'.op = "sendToUser" =>
         \A uid \in {"u1", "u2", NumericId, Anonymous}, m \in Messages :
            (RealtimeServer_sendToUser(uid, m, {}) /\ uid # NoUser) =>
               /\ sent' = {Frame(s, m, "") : s \in OpenOfUser(uid)}
               /\ count' = Cardinality(OpenOfUser(uid))]_vars

\* The step is an event of the real-time channel: a connection accepted or
\* refused, a close, or an inbound frame.
ChannelEvent ==
    \E s \in Sockets :
       \/ \E cred \in Credentials001(s) : ws_connection(s, cred)
       \/ ws_close(s)
       \/ \E f \in Frames : ws_message(s, f)
       \/ \E cred \in Credentials009(s) : RealtimeServer_attach(s, cred)
       \/ RealtimeServer_close(s)
       \/ \E f \in Frames, bad \in BadSockets : RealtimeServer_handleMessage(s, f, bad)

\* C19: a step that changes a task, the database file or a notification is
\* no event of the real-time channel (no connect, close or inbound frame
\* changes them); and a frame of unknown type or one that is not JSON writes
\* to no socket and leaves the registry and the sockets as they were.
C19_ChannelFrame ==
    [][/\ (tasks' # tasks \/ disk' # disk \/ notes' # notes) => ~ChannelEvent
       /\ (last'.op = "message" /\ last'.status \in {"unknown", "malformed"}) =>
            \A s \in Sockets, bad \in BadSockets :
               (ws_message(s, last'.status) \/ RealtimeServer_handleMessage(s, last'.status, bad))
               => (sent' = {} /\ clients' = clients /\ socks' = socks)]_vars

\* A frame that is not JSON has been received while a task and a notification
\* are stored and two users are connected.
C19_Witness ==
    /\ last = Response("message", "", "malformed", "")
    /\ sent = {}
    /\ tasks # {}
    /\ Len(notes) > 0
    /\ Cardinality(DOMAIN clients) >= 2

\* C20: no notification an event creates is for the event's acting user
\* (assignedBy, completedBy, authorId, requestingUserId), whatever assigneeId,
\* watcherIds and subscriberIds the payload carries.
C20_NoSelfNotification ==
    [][\A i \in (Len(notes) + 1)..Len(notes') : notes'[i].userId # last'.id]_vars
\* The users the notification service is asked about.
Recipients == Users \cup {NumericId}

\* The records of a sequence.
Range(seq) == {seq[i] : i \in 1..Len(seq)}

\* The step is a markRead, markAllRead or clearAll of user u: a call of the
\* service (no socket event, which leaves last as it was) that answers u.
ReadOrClear(u) ==
    /\ socks' = socks
    /\ last'.op \in {"markRead", "markAllRead", "clearAll"}
    /\ last'.id = u

\* The step is a notify of user u.
NotifyOf(u) == last'.op = "notify" /\ last'.id = u /\ nextNoteId' = nextNoteId + 1

C22_AssignedOnce ==
    [][last'.op = "task:assigned" =>
         \A t \in {"A", "B"}, u2 \in Users, u1 \in Users, bad \in BadSockets :
            (u2 # u1 /\ on_task_assigned(t, u2, u1, bad)) =>
               notes' = Append(notes, [id |-> Decimal[nextNoteId], userId |-> u2,
                                       type |-> "task:assigned", title |-> "New task assigned",
                                       body |-> "You were assigned " \o t, read |-> FALSE,
                                       taskId |-> t])]_vars

\* C22 witness: u1 has assigned task B to u2 and the store holds one record,
\* for u2.
C22_Witness ==
    /\ last.op = "task:assigned" /\ last.id = "u1"
    /\ Len(notes) = 1
    /\ notes[1].userId = "u2" /\ notes[1].taskId = "B" /\ ~notes[1].read

\* The open connections of user u: the sockets whose ws.userId is u.
ConnectionsOf(u) == {s \in Sockets : socks[s].userId = u /\ socks[s].readyState = OPEN}

\* C23: every notify(userId, ...) stores its record, and the
\* notification:new frames it writes carry the id of that stored record and
\* go to each open connection of userId and to no other socket; with no
\* connection, the record is stored all the same.
C23_NotifyPushes ==
    [][\A u \in Recipients :
         NotifyOf(u) =>
            /\ Len(notes') = Len(notes) + 1
            /\ notes'[Len(notes')].userId = u
            /\ notes'[Len(notes')] \in Range(getForUser(u)')
            /\ sent' = {Frame(s, "notification:new", notes'[Len(notes')].id) : s \in ConnectionsOf(u)}]_vars

\* The records stored for user v, in the order of the store.
StoredFor(store, v) == SelectSeq(store, LAMBDA n : n.userId = v)

\* C24: a markRead, markAllRead or clearAll of user u leaves the records of
\* every other user as they were - the same records with the same read
\* flags - whatever ids the call names.
C24_OwnRecordsOnly ==
    [][\A u \in Users :
         ReadOrClear(u) =>
            \A v \in Recipients \ {u} : StoredFor(notes', v) = StoredFor(notes, v)]_vars

\* C24 witness: u1, connected, has called markRead with the ids of both
\* stored records; its own record is read, the record of u2 is still
\* unread.
C24_Witness ==
    /\ last.op = "markRead" /\ last.id = "u1"
    /\ \E f \in sent : f.type = "notification:read" /\ f.id = "2,1"
    /\ \E n \in Range(notes) : n.userId = "u1" /\ n.read
    /\ \E n \in Range(notes) : n.userId = "u2" /\ ~n.read

\* C25: the history never holds more than its capacity, and it holds the
\* most recent min(emitted, capacity) envelopes in the order of their
\* emission: its i-th envelope is the one stamped emitted - length + i.
C25_BoundedHistory ==
    /\ Len(history) <= maxHistory
    /\ Len(history) = (IF emitted < maxHistory THEN emitted ELSE maxHistory)
    /\ \A i \in 1..Len(history) : history[i].timestamp = emitted - Len(history) + i

\* C25 witness: more events than the capacity were emitted; the history is
\* full and its oldest envelope is no longer the first emitted.
C25_Witness ==
    /\ emitted > maxHistory + 1
    /\ Len(history) = maxHistory
    /\ history[1].timestamp = emitted - maxHistory + 1
    /\ history[1].timestamp > 1

\* The handlers a part of a trace calls at a depth, in order.
CalledAt(steps, depth) ==
    LET calls == SelectSeq(steps, LAMBDA e : e.kind = "call" /\ e.depth = depth)
    IN [i \in 1..Len(calls) |-> calls[i].h]

\* The handlers subscribed to an event, in order.
SubscribedTo(event) ==
    LET hs == Subscribed(event) IN [i \in 1..Len(hs) |-> hs[i].h]

\* The position where the handler called at position j of the trace returns.
ReturnOf(j) ==
    CHOOSE k \in (j + 1)..Len(trace) :
       /\ trace[k].kind = "return" /\ trace[k].depth = trace[j].depth
       /\ \A x \in (j + 1)..(k - 1) : trace[x].depth > trace[j].depth

\* C26: emit records the event before any handler runs, then calls every
\* handler subscribed to the event, in order, and no handler of another
\* event, each returning before the next is called; an event a handler
\* emits meanwhile is recorded after the outer one, and its handlers - all
\* those subscribed to it - have run and returned when the emitting handler
\* returns, before the outer emit calls its next handler.
C26_SynchronousDispatch ==
    (out.call = "emit") =>
       /\ trace # <<>>
       /\ trace[1].kind = "record" /\ trace[1].depth = 0
       /\ CalledAt(trace, 0) = SubscribedTo(trace[1].event)
       /\ out.had = (SubscribedTo(trace[1].event) # <<>>)
       /\ \A j \in 1..Len(trace) :
             /\ trace[j].kind = "call" =>
                   /\ \E k \in (j + 1)..Len(trace) :
                         /\ trace[k].kind = "return" /\ trace[k].depth = trace[j].depth
                         /\ trace[k].h = trace[j].h
                         /\ \A x \in (j + 1)..(k - 1) : trace[x].depth > trace[j].depth
                   /\ CalledAt(SubSeq(trace, j + 1, ReturnOf(j) - 1), trace[j].depth + 1)
                         = (IF \E l \in Range(listeners) : l.h = trace[j].h /\ l.does # NoCol
                              THEN SubscribedTo((CHOOSE l \in Range(listeners) : l.h = trace[j].h).does)
                            ELSE <<>>)
             /\ (trace[j].kind = "record" /\ j > 1) =>
                   /\ trace[j - 1].kind = "call" /\ trace[j - 1].depth = trace[j].depth - 1
                   /\ \E l \in Range(listeners) : l.h = trace[j - 1].h /\ l.does = trace[j].event
                   /\ trace[j].n > trace[1].n
       /\ LET records == SelectSeq(trace, LAMBDA e : e.kind = "record")
          IN \A i \in 1..Len(records) :
                /\ history[Len(history) - Len(records) + i].event = records[i].event
                /\ history[Len(history) - Len(records) + i].timestamp = emitted - Len(records) + i

\* C26 witness: task:completed was emitted on a bus where its second handler
\* emits task:assigned: the inner event was recorded and handled while that
\* handler ran, and a third handler of task:completed ran after it.
C26_Witness ==
    /\ out.call = "emit" /\ trace # <<>> /\ trace[1].event = "task:completed"
    /\ \E i, j, k \in 1..Len(trace) :
          /\ i < j /\ j < k
          /\ trace[i].kind = "record" /\ trace[i].depth = 1 /\ trace[i].event = "task:assigned"
          /\ trace[j].kind = "return" /\ trace[j].depth = 1
          /\ trace[k].kind = "call" /\ trace[k].depth = 0 /\ trace[k].h = "h3"

\* C27: recentEvents(n) returns the last min(n, length) envelopes of the
\* history, in their order, for every n >= 0; for n = 0, none.
C27_RecentEvents ==
    (out.call = "recentEvents") =>
       LET k == IF out.n < Len(history) THEN out.n ELSE Len(history)
       IN out.events = [i \in 1..k |-> history[Len(history) - k + i]]

\* 2^k
RECURSIVE Pow2(_)
Pow2(k) == IF k = 0 THEN 1 ELSE 2 * Pow2(k - 1)

\* C28: the timer set when the connection is lost for the k-th time in a row
\* runs for min(base * 2^(k-1), max) ms, base = 1000 and max = 30000; the
\* delay is always between base and max; and it is base again whenever a
\* connection opens.
C28_Backoff ==
    [][/\ (lost' = lost + 1) =>
             /\ reconnectTimer' = Min(1000 * Pow2(lost' - 1), 30000)
             /\ reconnectTimer' >= 1000 /\ reconnectTimer' <= 30000
       /\ (opens' = opens + 1) => reconnectDelay' = 1000
       /\ reconnectDelay' >= 1000 /\ reconnectDelay' <= 30000]_vars

\* C28 witness: after a connection that had opened, six connections in a row
\* were lost and the timer runs for the capped delay (32000 ms uncapped).
C28_Witness ==
    /\ opens >= 1
    /\ lost = 6
    /\ reconnectTimer = 30000

\* The step is ws.onmessage applying a live push to the cache.
PushApplied ==
    /\ wsState = "open" /\ wsState' = "open"
    /\ wire # <<>> /\ wire' = Tail(wire)
    /\ Head(wire).type \in {"notification:new", "notification:read", "notification:allRead"}

\* C29: whenever the hook becomes connected - the first time and every time
\* after - a full fetch is under way, and no live push is applied to the
\* cache while that fetch has not been applied.
C29_FetchOnConnect ==
    [][/\ (opens' = opens + 1) => fetching'.state # "none"
       /\ PushApplied => fetching.state = "none"]_vars

\* C30: when the store of the user changed while the hook was disconnected
\* and the hook has reconnected, then with no request in flight and no frame
\* waiting its cache is the state of the server: the notifications
\* getForUser returns and their unread count.
C30_ReconnectInSync ==
    (/\ missed /\ opens >= 2 /\ wsState = "open" /\ connected
     /\ fetching.state = "none" /\ wire = <<>>)
       => /\ notifications = getForUser(TokenUser)
          /\ unreadCount = db_countUnread(TokenUser)

\* C31: once the cleanup of the hook has run, no reconnect timer is pending
\* or set, and no new WebSocket is created.
C31_ShutdownIsFinal ==
    [][unmounted' => /\ reconnectTimer' = 0
                     /\ (wsState' = "connecting" => wsState = "connecting")]_vars

\* C37: with the connection open, no request of the hook in flight and no
\* frame waiting - so after a markRead has completed and its
\* notification:read push was handled - unreadCount is the number of unread
\* notifications of the user on the server.
C37_UnreadCountInSync ==
    (wsState = "open" /\ marking = NoMark /\ fetching = NoFetch /\ wire = <<>>)
       => unreadCount = db_countUnread(TokenUser)

\* The number of records whose read flag a step turns from false to true.
Flipped == Cardinality({i \in 1..Len(notes) : ~notes[i].read /\ notes'[i].read})

\* C35: markRead and markAllRead return the number of read flags they turned
\* from false to true; the same call made again at once returns 0 and
\* changes nothing; and no step turns the read flag of a record from true to
\* false.
C35_MarkReadCounts ==
    [][/\ \A u \in Users :
            (socks' = socks /\ last'.id = u /\ last'.op \in {"markRead", "markAllRead"}) =>
               /\ Len(notes') = Len(notes)
               /\ count' = Flipped
               /\ \A ids \in IdLists :
                     (last'.op = "markRead" /\ notes' = db_markRead(notes, ids, u)) =>
                        /\ db_markRead(notes', ids, u) = notes'
                        /\ Counted(notes', u, ids, FALSE) = 0
               /\ last'.op = "markAllRead" =>
                        /\ db_markAllRead(notes', u) = notes'
                        /\ Counted(notes', u, <<>>, TRUE) = 0
       /\ \A i \in 1..Len(notes), j \in 1..Len(notes') :
            (notes[i].id = notes'[j].id /\ notes[i].read) => notes'[j].read]_vars

\* C35 witness: u1 has a read record and its last markRead returned 0 - the
\* call named only records that were read already or are not its own.
C35_Witness ==
    /\ last.op = "markRead" /\ last.id = "u1"
    /\ count = 0
    /\ \E n \in Range(notes) : n.userId = "u1" /\ n.read

\* C38: the board recorded on every task is the board of the column the
\* task is in, and a move request that is accepted names a column of a board
\* its sender owns.
C38_TaskOnBoardOfColumn ==
    /\ [](\A r \in tasks : ColumnBoard[r.col] = r.board)
    /\ [][\A u \in Users, b \in DOMAIN BoardOwner, t \in TaskIds, c \in DOMAIN ColumnBoard,
             p \in {0, NoPos} :
             (MoveTask(u, b, t, c, p) /\ last'.status = "200") =>
                BoardOwner[ColumnBoard[c]] = u]_vars

\* The step ends the call of update in place c (its write or its throw).
Settles(c) == updating[c].state = "loaded" /\ updating'[c].state # "loaded"

\* C34: the status of a task changes only along an edge of the status flow;
\* a call of update that asks for a status that is neither the status of the
\* task nor one the flow allows from it is rejected with a ValidationError,
\* changes no task and sends no notification.
C34_StatusFlow ==
    [][/\ \A t \in DOMAIN taskStatus :
            taskStatus'[t] # taskStatus[t] => taskStatus'[t] \in STATUS_FLOW[taskStatus[t]]
       /\ \A c \in 1..MaxCalls :
            (/\ Settles(c)
             /\ updating[c].to # taskStatus[updating[c].taskId]
             /\ updating[c].to \notin STATUS_FLOW[taskStatus[updating[c].taskId]]) =>
               /\ last'.status = "rejected" /\ last'.error = "ValidationError"
               /\ taskStatus' = taskStatus
               /\ sends' = <<>>]_vars

\* The positions of taskIds whose call of moveToStatus settled as outcome,
\* in order.
PositionsOf(outcome) ==
    SelectSeq([i \in 1..Len(bulk.taskIds) |-> i], LAMBDA i : bulk.results[i].state = outcome)

\* C39: what bulkUpdateStatus returns is a partition of its input: succeeded
\* lists the tasks of the positions whose update was fulfilled, failed lists
\* the positions whose update was rejected, each under the task id of its
\* position and with the error of that update; and the update of a position
\* was rejected exactly when the flow forbids the change for its task.
C39_BulkPartition ==
    bulk.state = "returned" =>
       /\ bulk.succeeded = [j \in 1..Len(PositionsOf("fulfilled")) |->
                               bulk.taskIds[PositionsOf("fulfilled")[j]]]
       /\ bulk.failed = [j \in 1..Len(PositionsOf("rejected")) |->
                            [taskId |-> bulk.taskIds[PositionsOf("rejected")[j]],
                             error |-> bulk.results[PositionsOf("rejected")[j]].error]]
       /\ \A i \in 1..Len(bulk.taskIds) :
             /\ bulk.results[i].taskId = bulk.taskIds[i]
             /\ bulk.results[i].state = "rejected" <=>
                   /\ bulk.results[i].to # bulk.results[i].from
                   /\ bulk.results[i].to \notin STATUS_FLOW[bulk.results[i].from]

\* The step is the store handling the answer to its call r of operation op.
Handles(r, op) == requests[r].op = op /\ requests[r].state # "sent" /\ requests'[r].op # op

\* C32: when the request of an updateTask or a moveTask has failed, the step
\* that handles the failure leaves the cached task as it was captured before
\* the optimistic change and the task ids of the columns as they were before
\* it, and the promise of the call is rejected.
C32_RollbackOnFailure ==
    [][\A r \in 1..MaxRequests :
         /\ (Handles(r, "updateTask") /\ requests[r].state = "failed") =>
               /\ storeTasks'[requests[r].taskId] = requests[r].prev
               /\ storeBoards' = storeBoards
               /\ last'.op = "updateTask" /\ last'.status = "rejected"
         /\ (Handles(r, "moveTask") /\ requests[r].state = "failed") =>
               /\ storeTasks'[requests[r].taskId] = requests[r].prev
               /\ storeBoards' = requests[r].columns
               /\ last'.op = "moveTask" /\ last'.status = "rejected"]_vars

\* C33: while a call of updateTask is under way, optimisticUpdates holds
\* under its task the task the call captured before its optimistic change;
\* the step that handles the answer leaves no entry for the task, and on
\* success the cached task is the task the server returned.
C33_PendingRecord ==
    /\ [](\A r \in 1..MaxRequests :
            requests[r].op = "updateTask" =>
               optimisticUpdates[requests[r].taskId] = requests[r].prev)
    /\ [][\A r \in 1..MaxRequests :
            Handles(r, "updateTask") =>
               /\ optimisticUpdates'[requests[r].taskId] = NoTask
               /\ requests[r].state = "ok" =>
                     storeTasks'[requests[r].taskId] = requests[r].task]_vars

\* C36: when no call of updateTask is under way any more, whatever calls
\* overlapped and however they ended, the cached task is the task the server
\* holds and optimisticUpdates has no entry for it.
C36_OverlapConverges ==
    (\A r \in 1..MaxRequests : requests[r].op = "none") =>
       /\ storeTasks["A"] = remoteTasks["A"]
       /\ optimisticUpdates["A"] = NoTask
====
